---- MODULE Spec2Model ----
(***************************************************************************)
(* A model of the PAPPL printer object's IPP request handlers               *)
(* (pappl/printer-ipp.c) for one printer of the system: job admission       *)
(* (valid_job_attributes), job creation (Print-Job, Create-Job,             *)
(* Validate-Job), cancellation, pause/resume, Get-Jobs,                     *)
(* Set-Printer-Attributes, Get-Printer-Attributes with its status refresh,  *)
(* Identify-Printer and the per-printer job processing worker.              *)
(*                                                                          *)
(* The functions printer-ipp.c calls into job.c, job-process.c, printer.c   *)
(* and client-ipp.c (_papplJobCreate, papplJobCancel, papplPrinterPause,    *)
(* papplClientRespondIPPUnsupported, ...) are modelled from their           *)
(* specified behaviour; MODEL_MAP.json marks them.                          *)
(***************************************************************************)
EXTENDS Integers, Sequences, FiniteSets, TLC

\* system, printer: the objects; client: the last request handled in one
\* piece and its response; threads: the client threads whose handlers are
\* followed step by step; now: the clock read by time(NULL).
VARIABLES system, printer, client, threads, now

vars == <<system, printer, client, threads, now>>

----------------------------------------------------------------------------
(* Bounds *)

\* Most jobs ever created on the printer in one run (below the 100 kept
\* completed jobs, so no completed job is evicted).
MaxJobs == 2

\* Largest value of next_job_id at which a job is still created, and largest
\* value passed to papplPrinterSetNextJobID.
MaxJobID == 3

\* Number of client threads followed step by step.
NumClients == 2

\* Last second of the clock.
MaxTime == 3

\* Largest number of attributes of printer->attrs followed.
MaxAttrs == 2

----------------------------------------------------------------------------
(* Values *)

\* processing_job == NULL
NoJob == 0

\* The second in which the system starts (status_time and config_time of a
\* new printer lie more than a second back).
StartTime == 2

Clients == 1..NumClients

\* ipp_jstate_t values that end a job
JobTerminal == {"canceled", "aborted", "completed"}

JobStates == {"pending", "held", "processing", "stopped"} \cup JobTerminal

PrinterStates == {"idle", "processing", "stopped"}

\* http_status_t results of papplClientIsAuthorized
AuthStatuses == {"continue", "unauthorized", "forbidden"}

----------------------------------------------------------------------------
(* IPP attributes of a request *)

\* The media-col member valid_job_attributes looks at: media-size-name, or
\* else media-size with its x-dimension/y-dimension members.  name = "" when
\* the collection has neither; xcount/ycount = 0 when the integer member is
\* missing.
NoMember ==
  [name |-> "", tag |-> "zero", count |-> 0, str |-> "",
   xcount |-> 0, x |-> 0, ycount |-> 0, y |-> 0]

\* One attribute value as the IPP accessors see it: ippGetValueTag,
\* ippGetCount, ippGetInteger/ippGetRange lower/ippGetResolution x (int),
\* ippGetRange upper/ippGetResolution y (upper), ippGetString or the
\* resolution units (str).  An accessor of the wrong type yields 0 or "".
IntAttr(tag, count, int) ==
  [tag |-> tag, count |-> count, int |-> int, upper |-> 0, str |-> "",
   member |-> NoMember]

StrAttr(tag, count, str) ==
  [tag |-> tag, count |-> count, int |-> 0, upper |-> 0, str |-> str,
   member |-> NoMember]

RangeAttr(tag, count, lower, upper) ==
  [tag |-> tag, count |-> count, int |-> lower, upper |-> upper, str |-> "",
   member |-> NoMember]

ResAttr(tag, count, xdpi, ydpi, units) ==
  [tag |-> tag, count |-> count, int |-> xdpi, upper |-> ydpi, str |-> units,
   member |-> NoMember]

ColAttr(tag, count, member) ==
  [tag |-> tag, count |-> count, int |-> 0, upper |-> 0, str |-> "",
   member |-> member]

SizeNameMember(tag, count, str) ==
  [name |-> "media-size-name", tag |-> tag, count |-> count, str |-> str,
   xcount |-> 0, x |-> 0, ycount |-> 0, y |-> 0]

SizeMember(count, xcount, x, ycount, y) ==
  [name |-> "media-size", tag |-> "collection", count |-> count, str |-> "",
   xcount |-> xcount, x |-> x, ycount |-> ycount, y |-> y]

\* ippFindAttribute(client->request, name, IPP_TAG_ZERO) != NULL
ippFindAttribute(req, name) == name \in DOMAIN req.attrs

NameTags == {"name", "nameLang"}

NameOrKeywordTags == {"name", "nameLang", "keyword"}

----------------------------------------------------------------------------
(* Keyword tables and document validation used by admission *)

\* _papplColorModeValue(keyword) & color_supported
_papplColorModeValue(str, color_supported) == str \in color_supported

\* _papplSidesValue(keyword) & sides_supported
_papplSidesValue(str, sides_supported) == str \in sides_supported

\* _papplContentValue(keyword) != 0
_papplContentValue(str) ==
  str \in {"auto", "graphic", "photo", "text", "text-and-graphic"}

\* _papplScalingValue(keyword) != 0
_papplScalingValue(str) == str \in {"auto", "auto-fit", "fill", "fit", "none"}

\* An attribute echoed in the unsupported-attributes group: tag and values
\* are kept.
papplClientRespondIPPUnsupported(name, a) == [name |-> name, attr |-> a]

\* _papplJobValidateDocumentAttributes: the operation attributes of the
\* request; a document-format the printer does not list is echoed.
_papplJobValidateDocumentAttributes(req, drv) ==
  IF req.format = "" \/ req.format \in drv.formats
    THEN [valid |-> TRUE, unsupported |-> <<>>]
    ELSE [valid |-> FALSE,
          unsupported |->
            <<papplClientRespondIPPUnsupported("document-format",
                  StrAttr("mimeMediaType", 1, req.format))>>]

----------------------------------------------------------------------------
(* valid_job_attributes: the per-attribute checks *)

\* Number of times the checks of one job template attribute call
\* papplClientRespondIPPUnsupported for media-col.
MediaColEchoes(a, drv) ==
  LET first == IF a.count # 1 \/ a.tag # "collection" THEN 1 ELSE 0
      m     == IF a.tag = "collection" THEN a.member ELSE NoMember
      second ==
        IF m.name = "media-size-name"
          THEN IF m.count # 1 \/ m.tag \notin NameOrKeywordTags
                 THEN 1
                 ELSE IF m.str \notin drv.media_supported THEN 1 ELSE 0
        ELSE IF m.name = "media-size"
          THEN IF m.count # 1
                 THEN 1
                 ELSE IF m.xcount # 1 \/ m.ycount # 1
                   THEN 1
                   ELSE IF <<m.x, m.y>> \notin drv.media_size_supported
                     THEN 1 ELSE 0
        ELSE 0
  IN  first + second

\* The copies check with its upper limit off by one.
CopiesUnsupportedOffByOne(a) ==
  a.count # 1 \/ a.tag # "integer" \/ a.int < 1 \/ a.int > 1000

\* TRUE when the copies attribute is rejected.
CopiesUnsupported(a) ==
  a.count # 1 \/ a.tag # "integer" \/ a.int < 1 \/ a.int > 999

\* TRUE when the check of attribute `name` with value `a` fails.
AttrUnsupported(name, a, drv) ==
  CASE name = "copies" -> CopiesUnsupported(a)
    [] name = "ipp-attribute-fidelity" ->
         a.count # 1 \/ a.tag # "boolean"
    [] name = "job-hold-until" ->
         a.count # 1 \/ a.tag \notin NameOrKeywordTags \/ a.str # "no-hold"
    [] name = "job-impressions" ->
         a.count # 1 \/ a.tag # "integer" \/ a.int < 0
    [] name = "job-name" ->
         a.count # 1 \/ a.tag \notin NameTags
    [] name = "job-priority" ->
         a.count # 1 \/ a.tag # "integer" \/ a.int < 1 \/ a.int > 100
    [] name = "job-sheets" ->
         a.count # 1 \/ a.tag \notin NameOrKeywordTags \/ a.str # "none"
    [] name = "media" ->
         IF a.count # 1 \/ a.tag \notin NameOrKeywordTags
           THEN TRUE
           ELSE a.str \notin drv.media_supported
    [] name = "media-col" -> MediaColEchoes(a, drv) > 0
    [] name = "multiple-document-handling" ->
         a.count # 1 \/ a.tag # "keyword"
           \/ a.str \notin {"separate-documents-uncollated-copies",
                            "separate-documents-collated-copies"}
    [] name = "orientation-requested" ->
         a.count # 1 \/ a.tag # "enum" \/ a.int < 3 \/ a.int > 7
    [] name = "page-ranges" ->
         ~drv.page_ranges_supported \/ a.tag # "rangeOfInteger"
           \/ a.count # 1 \/ a.int < 1 \/ a.upper < a.int
    [] name = "print-color-mode" ->
         a.count # 1 \/ a.tag # "keyword"
           \/ ~_papplColorModeValue(a.str, drv.color_supported)
    [] name = "print-content-optimize" ->
         a.count # 1 \/ a.tag # "keyword" \/ ~_papplContentValue(a.str)
    [] name = "print-darkness" ->
         a.count # 1 \/ a.tag # "integer" \/ a.int < -100 \/ a.int > 100
           \/ drv.darkness_supported = 0
    [] name = "print-quality" ->
         a.count # 1 \/ a.tag # "enum" \/ a.int < 3 \/ a.int > 5
    [] name = "print-scaling" ->
         a.count # 1 \/ a.tag # "keyword" \/ ~_papplScalingValue(a.str)
    [] name = "print-speed" ->
         a.count # 1 \/ a.tag # "integer"
           \/ a.int < drv.speed_supported[1] \/ a.int > drv.speed_supported[2]
           \/ drv.speed_supported[2] = 0
    [] name = "printer-resolution" ->
         IF a.count # 1 \/ a.tag # "resolution" \/ a.str # "dpi"
           THEN TRUE
           ELSE <<a.int, a.upper>> \notin drv.resolutions
    [] name = "sides" ->
         a.count # 1 \/ a.tag # "keyword"
           \/ ~_papplSidesValue(a.str, drv.sides_supported)

\* The job template attributes in the order valid_job_attributes checks them.
JobAttrOrder ==
  <<"copies", "ipp-attribute-fidelity", "job-hold-until", "job-impressions",
    "job-name", "job-priority", "job-sheets", "media", "media-col",
    "multiple-document-handling", "orientation-requested", "page-ranges",
    "print-color-mode", "print-content-optimize", "print-darkness",
    "print-quality", "print-scaling", "print-speed", "printer-resolution",
    "sides">>

JobAttrNames == {JobAttrOrder[i] : i \in 1..Len(JobAttrOrder)}

\* The echoes one attribute adds to the unsupported group.
AttrEchoes(req, name, drv) ==
  IF ~ippFindAttribute(req, name)
    THEN <<>>
    ELSE LET a == req.attrs[name]
             e == papplClientRespondIPPUnsupported(name, a)
         IN  IF name = "media-col"
               THEN [k \in 1..MediaColEchoes(a, drv) |-> e]
               ELSE IF AttrUnsupported(name, a, drv) THEN <<e>> ELSE <<>>

\* The checks stopping at the first attribute that fails.
RECURSIVE CheckFromFirstOnly(_, _, _)
CheckFromFirstOnly(req, drv, i) ==
  IF i > Len(JobAttrOrder)
    THEN <<>>
    ELSE IF AttrEchoes(req, JobAttrOrder[i], drv) # <<>>
      THEN AttrEchoes(req, JobAttrOrder[i], drv)
      ELSE CheckFromFirstOnly(req, drv, i + 1)

\* The checks of the job template attributes from the i-th on, in order.
RECURSIVE CheckFrom(_, _, _)
CheckFrom(req, drv, i) ==
  IF i > Len(JobAttrOrder)
    THEN <<>>
    ELSE AttrEchoes(req, JobAttrOrder[i], drv) \o CheckFrom(req, drv, i + 1)

\* The checks of valid_job_attributes after the shutdown test: the result,
\* the status of the response composed ("none" when none was) and the
\* unsupported group.
CheckJobAttributes(req, drv) ==
  LET doc  == _papplJobValidateDocumentAttributes(req, drv)
      tmpl == CheckFrom(req, drv, 1)
      un   == doc.unsupported \o tmpl
  IN  [valid |-> doc.valid /\ tmpl = <<>>,
       status |-> IF un = <<>> THEN "none"
                  ELSE "client-error-attributes-or-values-not-supported",
       unsupported |-> un]

\* Admission that does not look at the shutdown deadline.
valid_job_attributes_NoShutdownTest(req, sys, drv) ==
  CheckJobAttributes(req, drv)

\* valid_job_attributes
valid_job_attributes(req, sys, drv) ==
  IF sys.shutdown_time # 0
    THEN [valid |-> FALSE, status |-> "server-error-not-accepting-jobs",
          unsupported |-> <<>>]
    ELSE CheckJobAttributes(req, drv)

----------------------------------------------------------------------------
(* Jobs and the printer's job lists *)

Remove(seq, j) == SelectSeq(seq, LAMBDA k : k # j)

\* active_jobs is kept in ascending job-id order.
ActiveInsert(active, jobs, j) ==
  SelectSeq(active, LAMBDA k : jobs[k].job_id <= jobs[j].job_id)
    \o <<j>>
    \o SelectSeq(active, LAMBDA k : jobs[k].job_id > jobs[j].job_id)

\* _papplJobCreate(printer, 0, username, ...): the id is taken from
\* next_job_id and the job is added to all_jobs and active_jobs in one
\* write-locked section.  Jobs are named by their position in all_jobs.
_papplJobCreate(p, username) ==
  LET job  == [job_id |-> p.next_job_id, state |-> "pending",
               is_canceled |-> FALSE, has_document |-> FALSE,
               username |-> username]
      jobs == Append(p.all_jobs, job)
  IN  [p EXCEPT !.all_jobs = jobs,
                !.active_jobs = ActiveInsert(@, jobs, Len(jobs)),
                !.next_job_id = @ + 1]

\* _papplJobCopyDocumentData / Send-Document: the document is spooled and the
\* job is ready to be picked by the processing worker.
_papplJobCopyDocumentData(p, j) ==
  [p EXCEPT !.all_jobs[j].has_document = TRUE]

\* A job leaves active_jobs for completed_jobs (newest first) in a terminal
\* state.
FinishJobAs(p, j, jstate) ==
  [p EXCEPT !.all_jobs[j].state = jstate,
            !.active_jobs = Remove(@, j),
            !.completed_jobs = <<j>> \o @]

\* papplJobCancel: a processing job gets the cancel flag its driver callback
\* polls; any other job that is not terminal is canceled at once.
papplJobCancel(p, j) ==
  IF p.all_jobs[j].state = "processing"
    THEN [p EXCEPT !.all_jobs[j].is_canceled = TRUE]
    ELSE IF p.all_jobs[j].state \in JobTerminal
      THEN p
      ELSE FinishJobAs(p, j, "canceled")

RECURSIVE CancelEach(_, _)
CancelEach(p, js) ==
  IF js = <<>> THEN p ELSE CancelEach(papplJobCancel(p, Head(js)), Tail(js))

\* A cancel-all that stops after the first job of active_jobs.
papplPrinterCancelAllJobs_FirstOnly(p) ==
  IF p.active_jobs = <<>> THEN p ELSE papplJobCancel(p, Head(p.active_jobs))

\* papplPrinterCancelAllJobs: every job of active_jobs is canceled.
papplPrinterCancelAllJobs(p) == CancelEach(p, p.active_jobs)

\* A pause that stops the printer at once, job or no job.
papplPrinterPause_AtOnce(p) ==
  [p EXCEPT !.is_stopped = TRUE, !.state = "stopped"]

\* papplPrinterPause: the pause is requested; the printer stops at once when
\* no job is processing and after the current job otherwise.
papplPrinterPause(p) ==
  [p EXCEPT !.is_stopped = TRUE,
            !.state = IF p.processing_job = NoJob THEN "stopped" ELSE @]

\* A resume that clears the pause request and leaves the printer stopped.
papplPrinterResume_StaysStopped(p) == [p EXCEPT !.is_stopped = FALSE]

\* papplPrinterResume
papplPrinterResume(p) ==
  [p EXCEPT !.is_stopped = FALSE,
            !.state = IF @ = "stopped" THEN "idle" ELSE @]

\* The pending jobs of active_jobs, lowest job id first.
PendingJobs(p) ==
  SelectSeq(p.active_jobs, LAMBDA k : p.all_jobs[k].state = "pending")

----------------------------------------------------------------------------
(* Drivers and requests the clients submit *)

\* Number of entries of driver_data.media_ready.
PAPPL_MAX_SOURCE == 16

\* The part of a pappl_media_col_t the printer attributes code reads and
\* writes by field: size name and dimensions in hundredths of millimetres.
Media(size_name, size_width, size_length) ==
  [size_name |-> size_name, size_width |-> size_width,
   size_length |-> size_length]

\* An entry after memset(0), or with its size fields reset.
ClearedMedia == Media("", 0, 0)

\* Driver data of the two kinds of printers the model is run with: a raster
\* printer without darkness, speed or page-range support, and a label printer
\* with all three.
Drivers ==
  { [formats |-> {"image/pwg-raster", "image/urf", "image/jpeg"},
     media_supported |-> {"na_letter_8.5x11in", "iso_a4_210x297mm"},
     media_size_supported |-> {<<21590, 27940>>, <<21000, 29700>>},
     page_ranges_supported |-> FALSE,
     color_supported |-> {"auto", "color", "monochrome"},
     darkness_supported |-> 0,
     speed_supported |-> <<0, 0>>,
     resolutions |-> {<<300, 300>>, <<600, 600>>},
     sides_supported |-> {"one-sided"},
     vendor |-> {}, status_cb |-> TRUE, identify_cb |-> TRUE,
     num_source |-> 2,
     media_ready |-> [i \in 1..PAPPL_MAX_SOURCE |->
                        IF i = 1 THEN Media("na_letter_8.5x11in", 21590, 27940)
                                 ELSE ClearedMedia],
     media_default |-> Media("na_letter_8.5x11in", 21590, 27940),
     orient_default |-> 0, quality_default |-> 0, color_default |-> 0,
     content_default |-> 0, scaling_default |-> 0, darkness_default |-> 0,
     speed_default |-> 0, darkness_configured |-> 0,
     tear_offset_configured |-> 0, tear_offset_supported |-> <<0, 0>>,
     mode_configured |-> 0, identify_default |-> 0,
     x_default |-> 300, y_default |-> 300],
    [formats |-> {"image/pwg-raster", "application/pdf"},
     media_supported |-> {"oe_address-label_1.25x3.5in"},
     media_size_supported |-> {<<3175, 8890>>},
     page_ranges_supported |-> TRUE,
     color_supported |-> {"monochrome"},
     darkness_supported |-> 16,
     speed_supported |-> <<1, 6>>,
     resolutions |-> {<<203, 203>>},
     sides_supported |-> {"one-sided", "two-sided-long-edge"},
     vendor |-> {}, status_cb |-> TRUE, identify_cb |-> TRUE,
     num_source |-> 1,
     media_ready |-> [i \in 1..PAPPL_MAX_SOURCE |->
                        IF i = 1
                          THEN Media("oe_address-label_1.25x3.5in", 3175, 8890)
                          ELSE ClearedMedia],
     media_default |-> Media("oe_address-label_1.25x3.5in", 3175, 8890),
     orient_default |-> 0, quality_default |-> 0, color_default |-> 0,
     content_default |-> 0, scaling_default |-> 0, darkness_default |-> 0,
     speed_default |-> 0, darkness_configured |-> 8,
     tear_offset_configured |-> 0, tear_offset_supported |-> <<0, 20>>,
     mode_configured |-> 0, identify_default |-> 0,
     x_default |-> 203, y_default |-> 203] }

\* The driver of the printer of the whole-printer model.
TestDriver == CHOOSE drv \in Drivers : drv.darkness_supported = 0

NoAttrs == [n \in {} |-> IntAttr("integer", 1, 0)]

OneAttr(name, a) == [n \in {name} |-> a]

TwoAttrs(name1, a1, name2, a2) ==
  [n \in {name1, name2} |-> IF n = name1 THEN a1 ELSE a2]

\* Requests of the whole-printer model: no job template attribute, or copies
\* and job-priority both out of range.
Requests ==
  [format : {""},
   have_data : BOOLEAN,
   attrs : {NoAttrs,
            TwoAttrs("copies", IntAttr("integer", 1, 1000),
                     "job-priority", IntAttr("integer", 1, 101))}]

----------------------------------------------------------------------------
(* The client: its last request and the response composed for it *)

\* The request of an operation that carries no job attributes.
NoRequest == [format |-> "", have_data |-> FALSE, attrs |-> NoAttrs]

\* http is the HTTP status sent instead of an IPP response ("none" when an
\* IPP response was composed), status the IPP status code, unsupported the
\* unsupported-attributes group, job_id the job-id reported (0: none), jobs
\* the jobs a Get-Jobs response lists and attrs the printer attributes a
\* Get-Printer-Attributes response carries.
Respond(op, req, http, status, unsupported, job_id) ==
  [op |-> op, request |-> req, http |-> http, status |-> status,
   unsupported |-> unsupported, job_id |-> job_id, jobs |-> <<>>,
   attrs |-> <<>>]

\* papplClientRespondIPP(client, status, ...)
papplClientRespondIPP(op, req, status) ==
  Respond(op, req, "none", status, <<>>, 0)

\* papplClientRespond(client, auth_status, ...): an HTTP status and no IPP
\* response.
papplClientRespond(op, http) == Respond(op, NoRequest, http, "none", <<>>, 0)

\* A client before its first request.
papplClientCreate == Respond("none", NoRequest, "none", "none", <<>>, 0)

----------------------------------------------------------------------------
(* Geolocation values *)

\* The characters of the geolocation strings tried.
GeoChars(s) ==
  CASE s = "geo:46.4707,-80.9961" ->
         <<"g", "e", "o", ":", "4", "6", ".", "4", "7", "0", "7", ",", "-", "8", "0", ".", "9", "9", "6", "1">>
    [] s = "geo:1,2,3" ->
         <<"g", "e", "o", ":", "1", ",", "2", ",", "3">>
    [] s = "bad-value" ->
         <<"b", "a", "d", "-", "v", "a", "l", "u", "e">>
    [] s = "geo:1" ->
         <<"g", "e", "o", ":", "1">>
    [] s = "geo:,2" ->
         <<"g", "e", "o", ":", ",", "2">>
    [] OTHER -> <<>>

GeoTried ==
  {"geo:46.4707,-80.9961", "geo:1,2,3", "bad-value", "geo:1", "geo:,2"}

\* cs cut at every sep.
RECURSIVE Split(_, _)
Split(cs, sep) ==
  IF \A i \in 1..Len(cs) : cs[i] # sep
    THEN <<cs>>
    ELSE LET i == CHOOSE k \in 1..Len(cs) :
                    cs[k] = sep /\ \A m \in 1..(k - 1) : cs[m] # sep
         IN  <<SubSeq(cs, 1, i - 1)>> \o Split(SubSeq(cs, i + 1, Len(cs)), sep)

\* <float>: an optional sign and digits with at most one decimal point.
IsFloat(cs) ==
  LET body   == IF cs # <<>> /\ cs[1] \in {"-", "+"} THEN Tail(cs) ELSE cs
      digits == {"0", "1", "2", "3", "4", "5", "6", "7", "8", "9"}
  IN  /\ \E i \in 1..Len(body) : body[i] \in digits
      /\ \A i \in 1..Len(body) : body[i] \in digits \cup {"."}
      /\ Cardinality({i \in 1..Len(body) : body[i] = "."}) <= 1

\* geo:<float>,<float>(,<float>)?
IsGeoURI(s) ==
  LET cs == GeoChars(s)
  IN  /\ Len(cs) > 4
      /\ SubSeq(cs, 1, 4) = <<"g", "e", "o", ":">>
      /\ LET parts == Split(SubSeq(cs, 5, Len(cs)), ",")
         IN  /\ Len(parts) \in {2, 3}
             /\ \A i \in 1..Len(parts) : IsFloat(parts[i])

\* papplSystemSetGeoLocation and papplPrinterSetGeoLocation: NULL (here "")
\* clears the value, a geo: URI is stored, anything else is ignored.
papplSystemSetGeoLocation(sys, value) ==
  IF value = "" \/ IsGeoURI(value) THEN [sys EXCEPT !.geo_location = value]
                                  ELSE sys

papplPrinterSetGeoLocation(p, value) ==
  IF value = "" \/ IsGeoURI(value) THEN [p EXCEPT !.geo_location = value]
                                  ELSE p

\* The hostname the system finds for itself, and the UUID it generates.
DefaultHostname == "testpappl.local"

GeneratedUUID == "urn:uuid:generated"

Contact(name, email, telephone) ==
  [name |-> name, email |-> email, telephone |-> telephone]

Version(name, sversion) == [name |-> name, sversion |-> sversion]

\* The system object as papplSystemCreate leaves it; NULL strings are "".
papplSystemCreate ==
  [shutdown_time |-> 0, config_changed |-> FALSE, geo_location |-> "",
   is_running |-> FALSE, admin_group |-> "", contact |-> Contact("", "", ""),
   default_printer_id |-> 0, default_print_group |-> "",
   dns_sd_name |-> "", hostname |-> DefaultHostname, location |-> "",
   log_level |-> "info", max_log_size |-> 1048576, organization |-> "",
   org_unit |-> "", versions |-> <<>>, footer_html |-> "",
   uuid |-> GeneratedUUID, next_printer_id |-> 1, printers |-> <<>>,
   op_cb |-> FALSE, resources |-> <<>>]

\* papplSystemSetHostname: NULL brings back the hostname of the machine.
papplSystemSetHostname(sys, value) ==
  [sys EXCEPT !.hostname = IF value = "" THEN DefaultHostname ELSE value]

\* papplSystemSetFooterHTML, papplSystemSetUUID and
\* papplSystemSetNextPrinterID change the system only before it runs.
papplSystemSetFooterHTML(sys, html) ==
  IF sys.is_running THEN sys ELSE [sys EXCEPT !.footer_html = html]

papplSystemSetUUID(sys, value) ==
  IF sys.is_running
    THEN sys
    ELSE [sys EXCEPT !.uuid = IF value = "" THEN GeneratedUUID ELSE value]

papplSystemSetNextPrinterID(sys, next_printer_id) ==
  IF sys.is_running THEN sys
                    ELSE [sys EXCEPT !.next_printer_id = next_printer_id]

\* A setter that stores whatever it is given.
papplSystemSet_Unchecked(sys, field, value) == [sys EXCEPT ![field] = value]

\* A setter that never tests whether the system runs.
papplSystemSet_WhileRunning(sys, field, value) ==
  CASE field = "geo_location" -> papplSystemSetGeoLocation(sys, value)
    [] field = "hostname" -> papplSystemSetHostname(sys, value)
    [] field = "uuid" ->
         [sys EXCEPT !.uuid = IF value = "" THEN GeneratedUUID ELSE value]
    [] OTHER -> [sys EXCEPT ![field] = value]

\* papplSystemSetXxx for the field xxx of the system.
papplSystemSet(sys, field, value) ==
  CASE field = "geo_location" -> papplSystemSetGeoLocation(sys, value)
    [] field = "hostname" -> papplSystemSetHostname(sys, value)
    [] field = "footer_html" -> papplSystemSetFooterHTML(sys, value)
    [] field = "uuid" -> papplSystemSetUUID(sys, value)
    [] field = "next_printer_id" -> papplSystemSetNextPrinterID(sys, value)
    [] OTHER -> [sys EXCEPT ![field] = value]

\* papplSystemGetXxx.
papplSystemGet(sys, field) == sys[field]

\* papplSystemRun: the system is running from now on.
papplSystemRun(sys) == [sys EXCEPT !.is_running = TRUE]

\* Printers of the system: their ids and names.
NoPrinter == 0

PrinterIDs(sys) == {sys.printers[i].printer_id : i \in 1..Len(sys.printers)}

\* papplPrinterCreate with printer_id 0 that takes the lowest free id.
papplPrinterCreate_LowestFree(sys, name) ==
  IF \E i \in 1..Len(sys.printers) : sys.printers[i].name = name
    THEN [printer_id |-> NoPrinter, system |-> sys]
    ELSE LET id == CHOOSE k \in 1..sys.next_printer_id :
                     /\ k \notin PrinterIDs(sys)
                     /\ \A m \in 1..(k - 1) : m \in PrinterIDs(sys)
         IN  [printer_id |-> id,
              system |->
                [sys EXCEPT
                   !.printers = Append(@, [printer_id |-> id, name |-> name]),
                   !.next_printer_id = IF id = @ THEN @ + 1 ELSE @,
                   !.default_printer_id = IF @ = 0 THEN id ELSE @]]

\* papplPrinterCreate with printer_id 0: the printer gets next_printer_id,
\* and becomes the default printer when there is none; a name in use is
\* refused.
papplPrinterCreate(sys, name) ==
  IF \E i \in 1..Len(sys.printers) : sys.printers[i].name = name
    THEN [printer_id |-> NoPrinter, system |-> sys]
    ELSE [printer_id |-> sys.next_printer_id,
          system |->
            [sys EXCEPT
               !.printers = Append(@, [printer_id |-> sys.next_printer_id,
                                       name |-> name]),
               !.next_printer_id = @ + 1,
               !.default_printer_id =
                  IF @ = 0 THEN sys.next_printer_id ELSE @]]

\* papplPrinterDelete: the printer leaves the system; the systems it can
\* leave behind keep default_printer_id or, for the default printer, may
\* clear it.
papplPrinterDelete(sys, printer_id) ==
  LET removed == [sys EXCEPT !.printers =
                    SelectSeq(@, LAMBDA pr : pr.printer_id # printer_id)]
  IN  {removed}
        \cup (IF sys.default_printer_id = printer_id
                THEN {[removed EXCEPT !.default_printer_id = 0]}
                ELSE {})

\* The path of the printer called name.
PrinterPath(name) ==
  CASE name = "Office Printer" -> "/ipp/print/Office_Printer"
    [] name = "Label Printer" -> "/ipp/print/Label_Printer"
    [] name = "test0" -> "/ipp/print/test0"
    [] OTHER -> "/ipp/print/test1"

\* A lookup in which / and /ipp/print give the first printer.
papplSystemFindPrinter_First(sys, resource, printer_id) ==
  LET found == SelectSeq(sys.printers, LAMBDA pr :
                 \/ resource \in {"/", "/ipp/print"}
                 \/ pr.printer_id = printer_id
                 \/ (resource # "" /\ PrinterPath(pr.name) = resource))
  IN  IF found = <<>> THEN NoPrinter ELSE found[1].printer_id

\* papplSystemFindPrinter: / and /ipp/print stand for the default printer;
\* otherwise the printer with the id or the path is looked up.
papplSystemFindPrinter(sys, resource, printer_id) ==
  LET id    == IF resource \in {"/", "/ipp/print"}
                 THEN sys.default_printer_id
                 ELSE printer_id
      found == SelectSeq(sys.printers, LAMBDA pr :
                 \/ pr.printer_id = id
                 \/ (resource # "" /\ PrinterPath(pr.name) = resource))
  IN  IF found = <<>> THEN NoPrinter ELSE found[1].printer_id

\* The system as main() of testpappl sets it up before it runs.
TestSystem ==
  LET sys == [papplSystemCreate EXCEPT
                !.footer_html = "Copyright &copy; 2020",
                !.versions = <<Version("Test Application", "1.0 build 42")>>,
                !.contact = Contact("Michael R Sweet", "msweet@example.org",
                                    "+1-705-555-1212"),
                !.dns_sd_name = "Test System",
                !.geo_location = "geo:46.4707,-80.9961",
                !.location = "Test Lab 42",
                !.organization = "Lakeside Robotics"]
  IN  papplPrinterCreate(papplPrinterCreate(sys, "Office Printer").system,
                         "Label Printer").system

----------------------------------------------------------------------------
(* Initial state *)

\* A printer right after papplPrinterCreate with driver data drv.
NewPrinter(drv) ==
  [state |-> "idle", is_stopped |-> FALSE, processing_job |-> NoJob,
   next_job_id |-> 1, all_jobs |-> <<>>, active_jobs |-> <<>>,
   completed_jobs |-> <<>>, driver_data |-> drv,
   device_in_use |-> FALSE, status_time |-> 0, config_time |-> 0,
   location |-> "", organization |-> "", org_unit |-> "",
   geo_location |-> "", contact |-> NoMember, attrs |-> <<>>,
   driver_attrs |-> <<>>, state_reasons |-> {}]

\* Reason bits from PAPPL_PREASON_OTHER to PAPPL_PREASON_TONER_LOW, lowest
\* bit first, by their keywords (_papplPrinterReasonString).
PReasons == <<"other", "media-empty", "toner-low">>

\* _papplPrinterCopyState: the values of printer-state-reasons.
_papplPrinterCopyState(p) ==
  IF p.state_reasons = {}
    THEN IF p.is_stopped THEN <<"moving-to-paused">>
         ELSE IF p.state = "stopped" THEN <<"paused">>
         ELSE <<"none">>
    ELSE SelectSeq(PReasons, LAMBDA bit : bit \in p.state_reasons)
           \o (IF p.is_stopped THEN <<"moving-to-paused">>
               ELSE IF p.state = "stopped" THEN <<"paused">>
               ELSE <<>>)

\* A client thread between two requests: it holds no lock; cb_time is the
\* second in which it last invoked the status callback (0: never).
IdleThread == [pc |-> "idle", locks |-> {}, cb_time |-> 0]

Init ==
  /\ system = papplSystemCreate
  /\ printer = NewPrinter(TestDriver)
  /\ client = papplClientCreate
  /\ threads = [c \in Clients |-> IdleThread]
  /\ now = StartTime

----------------------------------------------------------------------------
(* Job creation handlers *)

\* Room for one more job within the bounds of the model.
CanCreate(p) == Len(p.all_jobs) < MaxJobs /\ p.next_job_id <= MaxJobID

\* create_job: a new job object for a Print-Job or Create-Job request.  The
\* clients of the model are not authenticated, so the owner is the
\* requesting-user-name of the name syntax, or "guest" without one.
create_job(p, req) ==
  _papplJobCreate(p, IF /\ ippFindAttribute(req, "requesting-user-name")
                        /\ req.attrs["requesting-user-name"].tag = "name"
                       THEN req.attrs["requesting-user-name"].str
                       ELSE "guest")

\* The part Print-Job and Create-Job share: admission, then create_job, then
\* (Print-Job, with_document) _papplJobCopyDocumentData.  `created` is FALSE
\* when _papplJobCreate returns NULL.
AdmitAndCreate(op, req, created, with_document) ==
  LET v == valid_job_attributes(req, system, printer.driver_data)
  IN  IF ~v.valid
        THEN /\ client' = Respond(op, req, "none", v.status, v.unsupported, 0)
             /\ UNCHANGED printer
        ELSE IF ~created
          THEN /\ client' = papplClientRespondIPP(op, req, "server-error-busy")
               /\ UNCHANGED printer
          ELSE /\ CanCreate(printer)
               /\ LET p1 == create_job(printer, req)
                      j  == Len(p1.all_jobs)
                  IN  /\ printer' = IF with_document
                                      THEN _papplJobCopyDocumentData(p1, j)
                                      ELSE p1
                      /\ client' = Respond(op, req, "none", "successful-ok",
                                           <<>>, p1.all_jobs[j].job_id)

\* Print-Job.
ipp_print_job(req, created) ==
  /\ IF ~req.have_data
       THEN /\ client' = papplClientRespondIPP("Print-Job", req,
                                               "client-error-bad-request")
            /\ UNCHANGED printer
       ELSE AdmitAndCreate("Print-Job", req, created, TRUE)
  /\ UNCHANGED <<system, threads, now>>

\* Create-Job that does not look for document data.
ipp_create_job_NoDataTest(req, created) ==
  /\ AdmitAndCreate("Create-Job", req, created, FALSE)
  /\ UNCHANGED <<system, threads, now>>

\* Create-Job.
ipp_create_job(req, created) ==
  /\ IF req.have_data
       THEN /\ client' = papplClientRespondIPP("Create-Job", req,
                                               "client-error-bad-request")
            /\ UNCHANGED printer
       ELSE AdmitAndCreate("Create-Job", req, created, FALSE)
  /\ UNCHANGED <<system, threads, now>>

\* Validate-Job that goes on to create the job it validated.
ipp_validate_job_Creates(req) ==
  /\ LET v == valid_job_attributes(req, system, printer.driver_data)
     IN  IF v.valid /\ CanCreate(printer)
           THEN /\ printer' = create_job(printer, req)
                /\ client' = papplClientRespondIPP("Validate-Job", req,
                                                   "successful-ok")
           ELSE /\ UNCHANGED printer
                /\ client' = Respond("Validate-Job", req, "none",
                                     IF v.valid THEN "successful-ok"
                                                ELSE v.status,
                                     v.unsupported, 0)
  /\ UNCHANGED <<system, threads, now>>

\* Validate-Job.
ipp_validate_job(req) ==
  /\ LET v == valid_job_attributes(req, system, printer.driver_data)
     IN  client' =
           IF v.valid
             THEN papplClientRespondIPP("Validate-Job", req, "successful-ok")
             ELSE Respond("Validate-Job", req, "none", v.status,
                          v.unsupported, 0)
  /\ UNCHANGED <<system, printer, threads, now>>

\* Send-Document for job j created by Create-Job: the document arrives.
ipp_send_document(j) ==
  /\ j \in 1..Len(printer.all_jobs)
  /\ printer.all_jobs[j].state = "pending"
  /\ ~printer.all_jobs[j].has_document
  /\ printer' = _papplJobCopyDocumentData(printer, j)
  /\ client' = Respond("Send-Document", NoRequest, "none", "successful-ok", <<>>,
                         printer.all_jobs[j].job_id)
  /\ UNCHANGED <<system, threads, now>>

----------------------------------------------------------------------------
(* Cancel, pause and resume handlers *)

\* Cancel-Current-Job.
ipp_cancel_current_job ==
  /\ IF printer.processing_job = NoJob
       THEN /\ client' = papplClientRespondIPP("Cancel-Current-Job", NoRequest,
                               "client-error-not-found")
            /\ UNCHANGED printer
       ELSE LET j == printer.processing_job
            IN  IF printer.all_jobs[j].state \in JobTerminal
                  THEN /\ client' = papplClientRespondIPP("Cancel-Current-Job", NoRequest, "client-error-not-possible")
                       /\ UNCHANGED printer
                  ELSE /\ printer' = papplJobCancel(printer, j)
                       /\ client' = papplClientRespondIPP("Cancel-Current-Job", NoRequest, "successful-ok")
  /\ UNCHANGED <<system, threads, now>>

\* Cancel-Job that does not look at the state of the job.
ipp_cancel_job_AnyState(j) ==
  /\ j \in 1..Len(printer.all_jobs)
  /\ printer' = IF printer.all_jobs[j].state = "processing"
                  THEN papplJobCancel(printer, j)
                  ELSE FinishJobAs(printer, j, "canceled")
  /\ client' = papplClientRespondIPP("Cancel-Job", NoRequest, "successful-ok")
  /\ UNCHANGED <<system, threads, now>>

\* Cancel-Job for job j.
ipp_cancel_job(j) ==
  /\ j \in 1..Len(printer.all_jobs)
  /\ IF printer.all_jobs[j].state \in JobTerminal
       THEN /\ client' = papplClientRespondIPP("Cancel-Job", NoRequest,
                               "client-error-not-possible")
            /\ UNCHANGED printer
       ELSE /\ printer' = papplJobCancel(printer, j)
            /\ client' = papplClientRespondIPP("Cancel-Job", NoRequest, "successful-ok")
  /\ UNCHANGED <<system, threads, now>>

\* Cancel-Jobs and Cancel-My-Jobs.
ipp_cancel_jobs(op, auth_status) ==
  /\ IF auth_status # "continue"
       THEN /\ client' = papplClientRespond(op, auth_status)
            /\ UNCHANGED printer
       ELSE /\ printer' = papplPrinterCancelAllJobs(printer)
            /\ client' = papplClientRespondIPP(op, NoRequest, "successful-ok")
  /\ UNCHANGED <<system, threads, now>>

\* Pause-Printer.
ipp_pause_printer(auth_status) ==
  /\ IF auth_status # "continue"
       THEN /\ client' = papplClientRespond("Pause-Printer", auth_status)
            /\ UNCHANGED printer
       ELSE /\ printer' = papplPrinterPause(printer)
            /\ client' = papplClientRespondIPP("Pause-Printer", NoRequest,
                                                 "successful-ok")
  /\ UNCHANGED <<system, threads, now>>

\* Resume-Printer.
ipp_resume_printer(auth_status) ==
  /\ IF auth_status # "continue"
       THEN /\ client' = papplClientRespond("Resume-Printer", auth_status)
            /\ UNCHANGED printer
       ELSE /\ printer' = papplPrinterResume(printer)
            /\ client' = papplClientRespondIPP("Resume-Printer", NoRequest,
                                                 "successful-ok")
  /\ UNCHANGED <<system, threads, now>>

----------------------------------------------------------------------------
(* Get-Jobs *)

\* ipp_jstate_t as the integer the handler compares.
JobStateValue(jstate) ==
  CASE jstate = "pending" -> 3
    [] jstate = "held" -> 4
    [] jstate = "processing" -> 5
    [] jstate = "stopped" -> 6
    [] jstate = "canceled" -> 7
    [] jstate = "aborted" -> 8
    [] jstate = "completed" -> 9

\* strcasecmp(a, b) == 0 for the user names of the model.
LowerCase(str) ==
  CASE str = "GUEST" -> "guest"
    [] str \in {"ALICE", "Alice"} -> "alice"
    [] str \in {"BOB", "Bob"} -> "bob"
    [] OTHER -> str

\* A comparison that lets every owner pass.
UserNameMatches_Any(username, owner) == TRUE

\* !strcasecmp(username, job->username)
UserNameMatches(username, owner) == LowerCase(username) = LowerCase(owner)

\* No such attribute in the request.
NoAttr == StrAttr("none", 0, "")

\* ippFindAttribute(client->request, name, tag) for attribute a of a Get-Jobs
\* request: found only with that value tag.
ippFindAttributeTag(a, tag) == a.count > 0 /\ a.tag = tag

\* The first n elements of seq.
FirstN(seq, n) == SubSeq(seq, 1, n)

\* all_jobs as the list of its jobs, in the order they were created.
AllJobs(p) == [j \in 1..Len(p.all_jobs) |-> j]

\* Get-Jobs that lists every job whatever which-jobs says.
ipp_get_jobs_NoFilter(greq) ==
  /\ client' = [papplClientRespondIPP("Get-Jobs", greq, "successful-ok")
                  EXCEPT !.jobs = AllJobs(printer)]
  /\ UNCHANGED <<system, printer, threads, now>>

\* Get-Jobs.  greq holds the which-jobs, limit, my-jobs and
\* requesting-user-name attributes of the request (NoAttr when absent).
ipp_get_jobs(greq) ==
  /\ LET which_found == ippFindAttributeTag(greq.which_jobs, "keyword")
         which_jobs  == greq.which_jobs.str
         sel ==
           IF ~which_found \/ which_jobs = "not-completed"
             THEN [job_comparison |-> -1, job_state |-> "stopped",
                   list |-> printer.active_jobs]
             ELSE IF which_jobs = "completed"
               THEN [job_comparison |-> 1, job_state |-> "canceled",
                     list |-> printer.completed_jobs]
               ELSE [job_comparison |-> 1, job_state |-> "pending",
                     list |-> AllJobs(printer)]
         list == sel.list
         limit0 == IF ippFindAttributeTag(greq.limit, "integer")
                     THEN greq.limit.int ELSE 0
         my_jobs == /\ ippFindAttributeTag(greq.my_jobs, "boolean")
                    /\ greq.my_jobs.int # 0
         name_found == ippFindAttributeTag(greq.username, "name")
         count == Len(list)
         limit == IF limit0 <= 0 \/ limit0 > count THEN count ELSE limit0
         Filtered(j) ==
           \/ /\ sel.job_comparison < 0
              /\ JobStateValue(printer.all_jobs[j].state)
                   > JobStateValue(sel.job_state)
           \/ /\ sel.job_comparison > 0
              /\ JobStateValue(printer.all_jobs[j].state)
                   < JobStateValue(sel.job_state)
           \/ /\ my_jobs
              /\ ~UserNameMatches(greq.username.str,
                                  printer.all_jobs[j].username)
     IN  IF which_found
            /\ which_jobs \notin {"not-completed", "completed", "all"}
           THEN client' = Respond("Get-Jobs", greq, "none",
                            "client-error-attributes-or-values-not-supported",
                            <<papplClientRespondIPPUnsupported("which-jobs",
                                                               greq.which_jobs)>>,
                            0)
           ELSE IF my_jobs /\ ~name_found
             THEN client' = papplClientRespondIPP("Get-Jobs", greq,
                                                  "client-error-bad-request")
             ELSE client' =
                    [papplClientRespondIPP("Get-Jobs", greq,
                                           "successful-ok")
                       EXCEPT !.jobs = SelectSeq(FirstN(list, limit),
                                                 LAMBDA j : ~Filtered(j))]
  /\ UNCHANGED <<system, printer, threads, now>>

----------------------------------------------------------------------------
(* Set-Printer-Attributes *)

\* An attribute of a Set-Printer-Attributes request: its group, name and
\* value.
SetAttr(group, name, a) == [group |-> group, name |-> name, attr |-> a]

\* pattrs[]: the settable printer attributes with their value tag and
\* largest number of values.
pattrs ==
  { [name |-> "label-mode-configured", value_tag |-> "keyword", max_count |-> 1],
    [name |-> "label-tear-off-configured", value_tag |-> "integer", max_count |-> 1],
    [name |-> "media-col-default", value_tag |-> "collection", max_count |-> 1],
    [name |-> "media-col-ready", value_tag |-> "collection", max_count |-> PAPPL_MAX_SOURCE],
    [name |-> "media-default", value_tag |-> "keyword", max_count |-> 1],
    [name |-> "media-ready", value_tag |-> "keyword", max_count |-> PAPPL_MAX_SOURCE],
    [name |-> "orientation-requested-default", value_tag |-> "enum", max_count |-> 1],
    [name |-> "print-color-mode-default", value_tag |-> "keyword", max_count |-> 1],
    [name |-> "print-content-optimize-default", value_tag |-> "keyword", max_count |-> 1],
    [name |-> "print-darkness-default", value_tag |-> "integer", max_count |-> 1],
    [name |-> "print-quality-default", value_tag |-> "enum", max_count |-> 1],
    [name |-> "print-speed-default", value_tag |-> "integer", max_count |-> 1],
    [name |-> "printer-contact-col", value_tag |-> "collection", max_count |-> 1],
    [name |-> "printer-darkness-configured", value_tag |-> "integer", max_count |-> 1],
    [name |-> "printer-geo-location", value_tag |-> "uri", max_count |-> 1],
    [name |-> "printer-location", value_tag |-> "text", max_count |-> 1],
    [name |-> "printer-organization", value_tag |-> "text", max_count |-> 1],
    [name |-> "printer-organizational-unit", value_tag |-> "text", max_count |-> 1],
    [name |-> "printer-resolution-default", value_tag |-> "resolution", max_count |-> 1] }

\* Preflight of one request attribute: TRUE when it is echoed as unsupported.
\* drv.vendor holds the names of the vendor xxx-default attributes.
PreflightUnsupported(ra, drv, create_printer) ==
  IF ra.group = "operation"
    THEN FALSE
    ELSE IF ra.group # "printer"
      THEN TRUE
      ELSE IF create_printer /\ ra.name \in {"printer-device-id", "printer-name",
                                             "smi2699-device-uri",
                                             "smi2699-device-command"}
        THEN FALSE
        ELSE /\ ~\E pa \in pattrs : /\ ra.name = pa.name
                                    /\ ra.attr.tag = pa.value_tag
                                    /\ ra.attr.count <= pa.max_count
             /\ ra.name \notin drv.vendor

\* The unsupported group the preflight loop composes, in request order.
RECURSIVE Preflight(_, _, _)
Preflight(sreq, drv, create_printer) ==
  IF sreq = <<>>
    THEN <<>>
    ELSE (IF PreflightUnsupported(Head(sreq), drv, create_printer)
            THEN <<papplClientRespondIPPUnsupported(Head(sreq).name,
                                                    Head(sreq).attr)>>
            ELSE <<>>)
         \o Preflight(Tail(sreq), drv, create_printer)

\* Attributes of several values carry them in a values field: keywords of
\* media-ready, collections of media-col-ready.
KeywordsAttr(values) ==
  [tag |-> "keyword", count |-> Len(values), int |-> 0, upper |-> 0,
   str |-> values[1], member |-> NoMember, values |-> values]

CollectionsAttr(values) ==
  [tag |-> "collection", count |-> Len(values), int |-> 0, upper |-> 0,
   str |-> "", member |-> values[1], values |-> values]

\* ippGetString(attr, i - 1, NULL) and ippGetCollection(attr, i - 1)
ippGetString(a, i) ==
  IF "values" \in DOMAIN a THEN a.values[i] ELSE IF i = 1 THEN a.str ELSE ""

ippGetCollection(a, i) ==
  IF "values" \in DOMAIN a THEN a.values[i]
                           ELSE IF i = 1 THEN a.member ELSE NoMember

\* Keyword tables of the lookup functions, lowest bit first.
LabelModes ==
  <<"applicator", "cutter", "cutter-delayed", "kiosk", "peel-off",
    "peel-off-prepeel", "rewind", "rfid", "tear-off">>

ColorModes ==
  <<"auto", "auto-monochrome", "bi-level", "color", "monochrome",
    "process-bi-level", "process-monochrome">>

ContentModes == <<"auto", "graphic", "photo", "text", "text-and-graphic">>

ScalingModes == <<"auto", "auto-fit", "fill", "fit", "none">>

IdentifyActions == <<"display", "flash", "sound", "speak">>

\* _pappl...Value: the bit of a keyword, 0 for a keyword not in the table.
KeywordValue(table, keyword) ==
  IF \E i \in 1..Len(table) : table[i] = keyword
    THEN 2 ^ ((CHOOSE i \in 1..Len(table) : table[i] = keyword) - 1)
    ELSE 0

\* _pappl...String: the keyword of a bit, "" (NULL) for any other value.
KeywordString(table, value) ==
  IF \E i \in 1..Len(table) : 2 ^ (i - 1) = value
    THEN table[CHOOSE i \in 1..Len(table) : 2 ^ (i - 1) = value]
    ELSE ""

\* identify_default: the bits of all the values of the attribute together.
RECURSIVE IdentifyBits(_, _)
IdentifyBits(a, i) ==
  IF i > a.count
    THEN {}
    ELSE ({KeywordValue(IdentifyActions, ippGetString(a, i))} \ {0})
           \cup IdentifyBits(a, i + 1)

RECURSIVE SumBits(_)
SumBits(bits) ==
  IF bits = {} THEN 0
               ELSE LET b == CHOOSE b \in bits : TRUE
                    IN  b + SumBits(bits \ {b})

\* Sizes pwgMediaForPWG knows by name; NoPwg stands for its NULL.
PwgMedia ==
  { [pwg |-> "na_letter_8.5x11in", width |-> 21590, length |-> 27940],
    [pwg |-> "iso_a4_210x297mm", width |-> 21000, length |-> 29700],
    [pwg |-> "oe_address-label_1.25x3.5in", width |-> 3175, length |-> 8890] }

NoPwg == [pwg |-> "", width |-> 0, length |-> 0]

pwgMediaForPWG(name) ==
  IF \E m \in PwgMedia : m.pwg = name
    THEN CHOOSE m \in PwgMedia : m.pwg = name
    ELSE NoPwg

\* pwgMediaForSize: a known size by its dimensions, a custom size for other
\* positive dimensions.
pwgMediaForSize(width, length) ==
  IF \E m \in PwgMedia : m.width = width /\ m.length = length
    THEN CHOOSE m \in PwgMedia : m.width = width /\ m.length = length
    ELSE IF width > 0 /\ length > 0
      THEN [pwg |-> "custom", width |-> width, length |-> length]
      ELSE NoPwg

\* _papplMediaColImport: the entry is zeroed, then its size is taken from
\* media-size-name or else from the two dimensions of media-size.
_papplMediaColImport(col) ==
  LET pwg == IF col.name = "media-size-name"
               THEN pwgMediaForPWG(col.str)
               ELSE IF col.name = "media-size" /\ col.xcount > 0
                       /\ col.ycount > 0
                 THEN pwgMediaForSize(col.x, col.y)
                 ELSE NoPwg
  IN  IF pwg # NoPwg THEN Media(pwg.pwg, pwg.width, pwg.length)
                     ELSE ClearedMedia

\* A media-ready branch that leaves the entries past the supplied values
\* as they were.
media_ready_apply_KeepRest(media_ready, a) ==
  [i \in 1..PAPPL_MAX_SOURCE |->
     IF i <= a.count
       THEN LET pwg == pwgMediaForPWG(ippGetString(a, i))
            IN  IF pwg # NoPwg THEN Media(pwg.pwg, pwg.width, pwg.length)
                               ELSE media_ready[i]
       ELSE media_ready[i]]

\* The media-ready branch of the apply loop: an entry below the number of
\* values gets the size of its keyword when pwgMediaForPWG knows it and is
\* left alone otherwise; the size fields of the other entries are reset.
media_ready_apply(media_ready, a) ==
  [i \in 1..PAPPL_MAX_SOURCE |->
     IF i <= a.count
       THEN LET pwg == pwgMediaForPWG(ippGetString(a, i))
            IN  IF pwg # NoPwg THEN Media(pwg.pwg, pwg.width, pwg.length)
                               ELSE media_ready[i]
       ELSE ClearedMedia]

\* The branch of the apply loop for one attribute.  An attribute with no
\* branch of its own is copied to the end of driver_attrs after an attribute
\* of its name was deleted there.
ApplyAttribute(p, ra) ==
  IF ra.group = "operation"
    THEN p
    ELSE CASE ra.name = "identify-actions-default" ->
                [p EXCEPT !.driver_data.identify_default =
                   SumBits(IdentifyBits(ra.attr, 1))]
           [] ra.name = "label-mode-configured" ->
                [p EXCEPT !.driver_data.mode_configured =
                   KeywordValue(LabelModes, ippGetString(ra.attr, 1))]
           [] ra.name = "label-tear-offset-configured" ->
                [p EXCEPT !.driver_data.tear_offset_configured = ra.attr.int]
           [] ra.name = "media-col-default" ->
                [p EXCEPT !.driver_data.media_default =
                   _papplMediaColImport(ippGetCollection(ra.attr, 1))]
           [] ra.name = "media-col-ready" ->
                [p EXCEPT !.driver_data.media_ready =
                   [i \in 1..PAPPL_MAX_SOURCE |->
                      IF i <= ra.attr.count
                        THEN _papplMediaColImport(ippGetCollection(ra.attr, i))
                        ELSE ClearedMedia]]
           [] ra.name = "media-default" ->
                LET pwg == pwgMediaForPWG(ippGetString(ra.attr, 1))
                IN  IF pwg # NoPwg
                      THEN [p EXCEPT !.driver_data.media_default =
                              Media(pwg.pwg, pwg.width, pwg.length)]
                      ELSE p
           [] ra.name = "media-ready" ->
                [p EXCEPT !.driver_data.media_ready =
                   media_ready_apply(@, ra.attr)]
           [] ra.name = "orientation-requested-default" ->
                [p EXCEPT !.driver_data.orient_default = ra.attr.int]
           [] ra.name = "print-color-mode-default" ->
                [p EXCEPT !.driver_data.color_default =
                   KeywordValue(ColorModes, ippGetString(ra.attr, 1))]
           [] ra.name = "print-content-optimize-default" ->
                [p EXCEPT !.driver_data.content_default =
                   KeywordValue(ContentModes, ippGetString(ra.attr, 1))]
           [] ra.name = "print-darkness-default" ->
                [p EXCEPT !.driver_data.darkness_default = ra.attr.int]
           [] ra.name = "print-quality-default" ->
                [p EXCEPT !.driver_data.quality_default = ra.attr.int]
           [] ra.name = "print-scaling-default" ->
                [p EXCEPT !.driver_data.scaling_default =
                   KeywordValue(ScalingModes, ippGetString(ra.attr, 1))]
           [] ra.name = "print-speed-default" ->
                [p EXCEPT !.driver_data.speed_default = ra.attr.int]
           [] ra.name = "printer-contact-col" ->
                [p EXCEPT !.contact = ippGetCollection(ra.attr, 1)]
           [] ra.name = "printer-darkness-configured" ->
                [p EXCEPT !.driver_data.darkness_configured = ra.attr.int]
           [] ra.name = "printer-geo-location" ->
                [p EXCEPT !.geo_location = ippGetString(ra.attr, 1)]
           [] ra.name = "printer-location" ->
                [p EXCEPT !.location = ippGetString(ra.attr, 1)]
           [] ra.name = "printer-organization" ->
                [p EXCEPT !.organization = ippGetString(ra.attr, 1)]
           [] ra.name = "printer-organization-unit" ->
                [p EXCEPT !.org_unit = ippGetString(ra.attr, 1)]
           [] ra.name = "printer-resolution-default" ->
                [p EXCEPT !.driver_data.x_default = ra.attr.int,
                          !.driver_data.y_default = ra.attr.upper]
           [] OTHER ->
                [p EXCEPT !.driver_attrs =
                   SelectSeq(@, LAMBDA da : da.name # ra.name)
                     \o <<[name |-> ra.name, attr |-> ra.attr]>>]

RECURSIVE ApplyAttributes(_, _)
ApplyAttributes(p, sreq) ==
  IF sreq = <<>> THEN p
                 ELSE ApplyAttributes(ApplyAttribute(p, Head(sreq)), Tail(sreq))

\* _papplSystemConfigChanged: the system is told to save its state.
_papplSystemConfigChanged(sys) == [sys EXCEPT !.config_changed = TRUE]

\* A set that applies the attributes that pass although others fail.
_papplPrinterSetAttributes_ApplyPassing(sreq, p, sys, t, create_printer) ==
  LET unsupported == Preflight(sreq, p.driver_data, create_printer)
      passing == SelectSeq(sreq, LAMBDA ra :
                   ~PreflightUnsupported(ra, p.driver_data, create_printer))
  IN  [ok |-> unsupported = <<>>, unsupported |-> unsupported,
       printer |-> [ApplyAttributes(p, passing) EXCEPT !.config_time = t],
       system |-> _papplSystemConfigChanged(sys)]

\* _papplPrinterSetAttributes: preflight, then the changes under the write
\* lock with config_time set to the clock t and the system told.
_papplPrinterSetAttributes(sreq, p, sys, t, create_printer) ==
  LET unsupported == Preflight(sreq, p.driver_data, create_printer)
  IN  IF unsupported # <<>>
        THEN [ok |-> FALSE, unsupported |-> unsupported, printer |-> p,
              system |-> sys]
        ELSE [ok |-> TRUE, unsupported |-> <<>>,
              printer |-> [ApplyAttributes(p, sreq) EXCEPT !.config_time = t],
              system |-> _papplSystemConfigChanged(sys)]

\* cupsArrayFind(ra, name) or no requested-attributes array at all; the
\* empty set stands for the NULL array.
Requested(ra, name) == ra = {} \/ name \in ra

\* One attribute added to the response when cond holds.
ippAdd(cond, name, a) ==
  IF cond THEN <<[name |-> name, attr |-> a]>> ELSE <<>>

\* The entries of the first num_source sources that have a size name.
ReadyMedia(data) ==
  SelectSeq([i \in 1..data.num_source |-> data.media_ready[i]],
            LAMBDA m : m.size_name # "")

\* The keywords of the identify_default bits, lowest bit first.
IdentifyStrings(value) ==
  SelectSeq(IdentifyActions,
            LAMBDA k : (value \div KeywordValue(IdentifyActions, k)) % 2 = 1)

\* copies-supported as computed from the document-format of the request
\* ("" when the request has none).
CopiesSupported_AnyFormat(format) == RangeAttr("rangeOfInteger", 1, 1, 999)

CopiesSupported(format) ==
  IF format # "" /\ (format = "image/pwg-raster" \/ format = "image/urf")
    THEN RangeAttr("rangeOfInteger", 1, 1, 1)
    ELSE RangeAttr("rangeOfInteger", 1, 1, 999)

\* _papplPrinterCopyAttributes: the attributes added to the response, in the
\* order of the code, for the requested array ra and the document-format.
\* Followed are the copies of attrs and driver_attrs, the state reasons,
\* copies-supported and the attributes Set-Printer-Attributes has a branch
\* for; the drivers of the model have no borderless media.
_papplPrinterCopyAttributes(p, sys, ra, format) ==
  LET data == p.driver_data
      ready == ReadyMedia(data)
  IN  SelectSeq(p.attrs, LAMBDA a : Requested(ra, a.name))
      \o SelectSeq(p.driver_attrs, LAMBDA da : Requested(ra, da.name))
      \o ippAdd(Requested(ra, "printer-state-reasons"),
                "printer-state-reasons",
                KeywordsAttr(_papplPrinterCopyState(p)))
      \o ippAdd(Requested(ra, "copies-supported"), "copies-supported",
                CopiesSupported(format))
      \o ippAdd(Requested(ra, "identify-actions-default"),
                "identify-actions-default",
                IF IdentifyStrings(data.identify_default) # <<>>
                  THEN KeywordsAttr(IdentifyStrings(data.identify_default))
                  ELSE StrAttr("keyword", 1, "none"))
      \o ippAdd(Requested(ra, "label-mode-configured")
                  /\ data.mode_configured # 0,
                "label-mode-configured",
                StrAttr("keyword", 1,
                        KeywordString(LabelModes, data.mode_configured)))
      \o ippAdd(Requested(ra, "label-tear-offset-configured")
                  /\ data.tear_offset_supported[2] > 0,
                "label-tear-offset-configured",
                IntAttr("integer", 1, data.tear_offset_configured))
      \o ippAdd(Requested(ra, "media-col-default")
                  /\ data.media_default.size_name # "",
                "media-col-default", CollectionsAttr(<<data.media_default>>))
      \o ippAdd(Requested(ra, "media-col-ready") /\ ready # <<>>,
                "media-col-ready", CollectionsAttr(ready))
      \o ippAdd(Requested(ra, "media-default")
                  /\ data.media_default.size_name # "",
                "media-default",
                StrAttr("keyword", 1, data.media_default.size_name))
      \o ippAdd(Requested(ra, "media-ready") /\ ready # <<>>,
                "media-ready",
                KeywordsAttr([i \in 1..Len(ready) |-> ready[i].size_name]))
      \o ippAdd(Requested(ra, "orientation-requested-default"),
                "orientation-requested-default",
                IntAttr("enum", 1, data.orient_default))
      \o ippAdd(Requested(ra, "print-color-mode-default")
                  /\ data.color_default # 0,
                "print-color-mode-default",
                StrAttr("keyword", 1,
                        KeywordString(ColorModes, data.color_default)))
      \o ippAdd(Requested(ra, "print-content-optimize-default"),
                "print-content-optimize-default",
                StrAttr("keyword", 1,
                        IF data.content_default # 0
                          THEN KeywordString(ContentModes, data.content_default)
                          ELSE "auto"))
      \o ippAdd(Requested(ra, "print-quality-default"),
                "print-quality-default",
                IntAttr("enum", 1, IF data.quality_default # 0
                                     THEN data.quality_default
                                     ELSE 4))
      \o ippAdd(Requested(ra, "print-scaling-default"),
                "print-scaling-default",
                StrAttr("keyword", 1,
                        IF data.scaling_default # 0
                          THEN KeywordString(ScalingModes, data.scaling_default)
                          ELSE "auto"))
      \o ippAdd(Requested(ra, "printer-contact-col"), "printer-contact-col",
                ColAttr("collection", 1, p.contact))
      \o ippAdd(Requested(ra, "printer-darkness-configured")
                  /\ data.darkness_supported > 0,
                "printer-darkness-configured",
                IntAttr("integer", 1, data.darkness_configured))
      \o ippAdd(Requested(ra, "printer-geo-location"), "printer-geo-location",
                IF p.geo_location # ""
                  THEN StrAttr("uri", 1, p.geo_location)
                  ELSE StrAttr("unknown", 1, ""))
      \o ippAdd(Requested(ra, "printer-is-accepting-jobs"),
                "printer-is-accepting-jobs",
                IntAttr("boolean", 1, IF sys.shutdown_time = 0 THEN 1 ELSE 0))
      \o ippAdd(Requested(ra, "printer-location"), "printer-location",
                StrAttr("text", 1, p.location))
      \o ippAdd(Requested(ra, "printer-organization"), "printer-organization",
                StrAttr("text", 1, p.organization))
      \o ippAdd(Requested(ra, "printer-organizational-unit"),
                "printer-organizational-unit", StrAttr("text", 1, p.org_unit))
      \o ippAdd(Requested(ra, "printer-resolution-default"),
                "printer-resolution-default",
                ResAttr("resolution", 1, data.x_default, data.y_default,
                        "dpi"))
      \o ippAdd(Requested(ra, "printer-speed-default"),
                "printer-speed-default",
                IntAttr("integer", 1, data.speed_default))

\* Set-Printer-Attributes that changes the printer before it looks at the
\* authorization.
ipp_set_printer_attributes_AuthLast(sreq, auth_status) ==
  /\ LET r == _papplPrinterSetAttributes(sreq, printer, system, now, FALSE)
     IN  /\ printer' = r.printer
         /\ client' = IF auth_status # "continue"
                        THEN papplClientRespond("Set-Printer-Attributes",
                                                auth_status)
                        ELSE papplClientRespondIPP("Set-Printer-Attributes",
                                                   NoRequest, "successful-ok")
         /\ system' = system
  /\ UNCHANGED <<threads, now>>

\* Set-Printer-Attributes.
ipp_set_printer_attributes(sreq, auth_status) ==
  /\ IF auth_status # "continue"
       THEN /\ client' = papplClientRespond("Set-Printer-Attributes",
                                            auth_status)
            /\ UNCHANGED <<printer, system>>
       ELSE LET r == _papplPrinterSetAttributes(sreq, printer, system, now, FALSE)
            IN  /\ printer' = r.printer
                /\ system' = r.system
                /\ client' =
                     IF ~r.ok
                       THEN Respond("Set-Printer-Attributes", sreq, "none",
                              "client-error-attributes-or-values-not-supported",
                              r.unsupported, 0)
                       ELSE papplClientRespondIPP("Set-Printer-Attributes",
                                                  sreq, "successful-ok")
  /\ UNCHANGED <<threads, now>>

\* The attribute part of Create-Printer: the attributes of the request are
\* set on the printer just created.
ipp_create_printer(sreq) ==
  /\ LET r == _papplPrinterSetAttributes(sreq, printer, system, now, TRUE)
     IN  /\ printer' = r.printer
         /\ system' = r.system
         /\ client' =
              IF ~r.ok
                THEN Respond("Create-Printer", sreq, "none",
                       "client-error-attributes-or-values-not-supported",
                       r.unsupported, 0)
                ELSE papplClientRespondIPP("Create-Printer", sreq,
                                           "successful-ok")
  /\ UNCHANGED <<threads, now>>

----------------------------------------------------------------------------
(* The processing worker, the API and shutdown *)

\* A worker that does not look whether a job is already processing.
_papplPrinterCheckJobs_NoBusyTest ==
  /\ ~printer.is_stopped
  /\ PendingJobs(printer) # <<>>
  /\ LET j == Head(PendingJobs(printer))
     IN  /\ printer.all_jobs[j].has_document
         /\ printer' = [printer EXCEPT !.all_jobs[j].state = "processing",
                                       !.processing_job = j,
                                       !.device_in_use = TRUE,
                                       !.state = "processing"]
  /\ UNCHANGED <<system, client, threads, now>>

\* A worker that takes any pending job whose document is there.
_papplPrinterCheckJobs_AnyReady ==
  /\ printer.processing_job = NoJob
  /\ ~printer.is_stopped
  /\ \E j \in 1..Len(printer.all_jobs) :
       /\ printer.all_jobs[j].state = "pending"
       /\ printer.all_jobs[j].has_document
       /\ printer' = [printer EXCEPT !.all_jobs[j].state = "processing",
                                     !.processing_job = j,
                                     !.device_in_use = TRUE,
                                     !.state = "processing"]
  /\ UNCHANGED <<system, client, threads, now>>

\* A worker that does not look whether the printer is paused.
_papplPrinterCheckJobs_NoStopTest ==
  /\ printer.processing_job = NoJob
  /\ PendingJobs(printer) # <<>>
  /\ LET j == Head(PendingJobs(printer))
     IN  /\ printer.all_jobs[j].has_document
         /\ printer' = [printer EXCEPT !.all_jobs[j].state = "processing",
                                       !.processing_job = j,
                                       !.device_in_use = TRUE,
                                       !.state = "processing"]
  /\ UNCHANGED <<system, client, threads, now>>

\* The worker takes the lowest-id pending job once its document is there.
_papplPrinterCheckJobs ==
  /\ printer.processing_job = NoJob
  /\ ~printer.is_stopped
  /\ PendingJobs(printer) # <<>>
  /\ LET j == Head(PendingJobs(printer))
     IN  /\ printer.all_jobs[j].has_document
         /\ printer' = [printer EXCEPT !.all_jobs[j].state = "processing",
                                       !.processing_job = j,
                                       !.device_in_use = TRUE,
                                       !.state = "processing"]
  /\ UNCHANGED <<system, client, threads, now>>

\* A worker that ends a job by the callback's result alone.
_papplJobProcess_IgnoresCancel(ok, in_time) ==
  /\ printer.processing_job # NoJob
  /\ LET j  == printer.processing_job
         p1 == FinishJobAs(printer, j, IF ok THEN "completed" ELSE "aborted")
     IN  printer' = [p1 EXCEPT !.processing_job = NoJob,
                               !.device_in_use = FALSE,
                               !.state = IF p1.is_stopped THEN "stopped"
                                                          ELSE "idle"]
  /\ UNCHANGED <<system, client, threads, now>>

\* The driver's print callback ends: `ok` is its result, `in_time` is FALSE
\* when a canceled job's callback did not return within the grace period.
_papplJobProcess(ok, in_time) ==
  /\ printer.processing_job # NoJob
  /\ LET j   == printer.processing_job
         job == printer.all_jobs[j]
         jstate == IF job.is_canceled
                     THEN IF in_time THEN "canceled" ELSE "aborted"
                     ELSE IF ok THEN "completed" ELSE "aborted"
         p1  == FinishJobAs(printer, j, jstate)
     IN  printer' = [p1 EXCEPT !.processing_job = NoJob,
                               !.device_in_use = FALSE,
                               !.state = IF p1.is_stopped THEN "stopped"
                                                          ELSE "idle"]
  /\ UNCHANGED <<system, client, threads, now>>

\* papplPrinterSetNextJobID(printer, next_job_id)
papplPrinterSetNextJobID(next_job_id) ==
  /\ printer' = [printer EXCEPT !.next_job_id = next_job_id]
  /\ UNCHANGED <<system, client, threads, now>>

\* papplSystemShutdown: the shutdown deadline is set.
papplSystemShutdown ==
  /\ system.shutdown_time = 0
  /\ system' = [system EXCEPT !.shutdown_time = 1]
  /\ UNCHANGED <<printer, client, threads, now>>

----------------------------------------------------------------------------
(* Specification *)

PrintJob ==
  \E req \in Requests, created \in BOOLEAN : ipp_print_job(req, created)

CreateJob ==
  \E req \in Requests, created \in BOOLEAN : ipp_create_job(req, created)

ValidateJob == \E req \in Requests : ipp_validate_job(req)

SendDocument == \E j \in 1..MaxJobs : ipp_send_document(j)

CancelCurrentJob == ipp_cancel_current_job

CancelJob == \E j \in 1..MaxJobs : ipp_cancel_job(j)

CancelJobs ==
  \E op \in {"Cancel-Jobs", "Cancel-My-Jobs"}, auth_status \in AuthStatuses :
    ipp_cancel_jobs(op, auth_status)

PausePrinter == \E auth_status \in AuthStatuses : ipp_pause_printer(auth_status)

ResumePrinter ==
  \E auth_status \in AuthStatuses : ipp_resume_printer(auth_status)

StartJob == _papplPrinterCheckJobs

FinishJob ==
  \E ok \in BOOLEAN, in_time \in BOOLEAN : _papplJobProcess(ok, in_time)

Shutdown == papplSystemShutdown

Next ==
  \/ PrintJob
  \/ CreateJob
  \/ ValidateJob
  \/ SendDocument
  \/ CancelCurrentJob
  \/ CancelJob
  \/ CancelJobs
  \/ PausePrinter
  \/ ResumePrinter
  \/ StartJob
  \/ FinishJob
  \/ Shutdown

\* The whole printer: every request handler, the worker and shutdown.
Spec == Init /\ [][Next]_vars

\* Job submission, cancellation, pause and resume next to a worker thread
\* that is scheduled: a job it can start is started, and the print callback
\* of a processing job returns.
NextLive ==
  \/ PrintJob
  \/ CreateJob
  \/ SendDocument
  \/ CancelJob
  \/ CancelJobs
  \/ PausePrinter
  \/ ResumePrinter
  \/ StartJob
  \/ FinishJob

SpecLive ==
  Init /\ [][NextLive]_vars /\ WF_vars(StartJob) /\ WF_vars(FinishJob)

----------------------------------------------------------------------------
(* The printer together with the papplPrinterSetNextJobID API *)

SetNextJobID == \E id \in 1..MaxJobID : papplPrinterSetNextJobID(id)

\* Job creation, document arrival and processing, and the API call.
NextID ==
  \/ PrintJob
  \/ CreateJob
  \/ SendDocument
  \/ StartJob
  \/ FinishJob
  \/ SetNextJobID

SpecID == Init /\ [][NextID]_vars

----------------------------------------------------------------------------
(* The operations that need authorization, with jobs on the printer *)

\* Set-Printer-Attributes requests: a location, a location of the wrong
\* syntax, an organization followed by an attribute of the job group, and a
\* geo-location after an operation attribute.
SetRequests ==
  { <<SetAttr("printer", "printer-location", StrAttr("text", 1, "Lab"))>>,
    <<SetAttr("printer", "printer-location", StrAttr("keyword", 1, "Lab"))>>,
    <<SetAttr("printer", "printer-organization", StrAttr("text", 1, "Org")),
      SetAttr("job", "copies", IntAttr("integer", 1, 1))>>,
    <<SetAttr("operation", "printer-uri",
              StrAttr("uri", 1, "ipp://localhost/ipp/print")),
      SetAttr("printer", "printer-geo-location",
              StrAttr("uri", 1, "geo:46.4707,-80.9961"))>> }

SetPrinterAttributes ==
  \E sreq \in SetRequests, auth_status \in AuthStatuses :
    ipp_set_printer_attributes(sreq, auth_status)

\* A second passes.
Tick ==
  /\ now < MaxTime
  /\ now' = now + 1
  /\ UNCHANGED <<system, printer, client, threads>>

NextAdmin ==
  \/ PrintJob
  \/ StartJob
  \/ CancelJobs
  \/ PausePrinter
  \/ ResumePrinter
  \/ SetPrinterAttributes
  \/ Tick

SpecAdmin == Init /\ [][NextAdmin]_vars

----------------------------------------------------------------------------
(* Get-Jobs on a printer with jobs in every state *)

\* which-jobs: absent, the three keywords, a keyword the printer does not
\* know, and "completed" sent with name syntax; limit: absent or 1; my-jobs:
\* absent, or true with no user name, the owner's name in capitals, or
\* another user's name.
GetJobsRequests ==
  [which_jobs : {NoAttr, StrAttr("keyword", 1, "not-completed"),
                 StrAttr("keyword", 1, "completed"),
                 StrAttr("keyword", 1, "all"),
                 StrAttr("keyword", 1, "fetchable"),
                 StrAttr("name", 1, "completed")},
   limit : {NoAttr, IntAttr("integer", 1, 1)},
   my_jobs : {NoAttr},
   username : {NoAttr}]
  \cup
  [which_jobs : {NoAttr, StrAttr("keyword", 1, "all")},
   limit : {NoAttr},
   my_jobs : {IntAttr("boolean", 1, 1)},
   username : {NoAttr, StrAttr("name", 1, "GUEST"), StrAttr("name", 1, "bob")}]

GetJobs == \E greq \in GetJobsRequests : ipp_get_jobs(greq)

NextGet ==
  \/ PrintJob
  \/ CancelJob
  \/ StartJob
  \/ FinishJob
  \/ GetJobs

SpecGet == Init /\ [][NextGet]_vars

----------------------------------------------------------------------------
(* Get-Printer-Attributes and Identify-Printer followed statement by        *)
(* statement on concurrent client threads, next to the processing worker    *)

\* No thread holds the read lock of the printer.
NoReader == \A c \in Clients : "printer" \notin threads[c].locks

\* A status refresh that calls the callback under the printer lock.
gpa_status_test_Locked(c) ==
  /\ threads[c].pc = "idle"
  /\ threads' =
       [threads EXCEPT ![c] =
          IF /\ ~printer.device_in_use
             /\ printer.processing_job = NoJob
             /\ now - printer.status_time > 1
             /\ printer.driver_data.status_cb
            THEN [@ EXCEPT !.pc = "status_cb", !.cb_time = now,
                           !.locks = {"printer"}]
            ELSE [@ EXCEPT !.pc = "respond"]]
  /\ UNCHANGED <<system, printer, client, now>>

\* Get-Printer-Attributes, line 1248 to 1251: the test of device_in_use,
\* processing_job, the clock and status_cb, and the call of the status
\* callback when it passes.  No lock is taken for the test.
gpa_status_test(c) ==
  /\ threads[c].pc = "idle"
  /\ threads' =
       [threads EXCEPT ![c] =
          IF /\ ~printer.device_in_use
             /\ printer.processing_job = NoJob
             /\ now - printer.status_time > 1
             /\ printer.driver_data.status_cb
            THEN [@ EXCEPT !.pc = "status_cb", !.cb_time = now]
            ELSE [@ EXCEPT !.pc = "respond"]]
  /\ UNCHANGED <<system, printer, client, now>>

\* Line 1251 to 1252: the status callback returns and status_time is set.
gpa_status_done(c) ==
  /\ threads[c].pc = "status_cb"
  /\ printer' = [printer EXCEPT !.status_time = now]
  /\ threads' = [threads EXCEPT ![c].pc = "respond", ![c].cb_time = 0]
  /\ UNCHANGED <<system, client, now>>

\* Line 1256 to 1260: the response is started and the printer read-locked.
gpa_rdlock(c) ==
  /\ threads[c].pc = "respond"
  /\ threads' = [threads EXCEPT ![c].pc = "copy", ![c].locks = {"printer"}]
  /\ UNCHANGED <<system, printer, client, now>>

\* _papplPrinterCopyAttributes up to line 409 or 431: the system is
\* read-locked for the printer-strings attributes when they are requested.
gpa_copy(c, strings_requested) ==
  /\ threads[c].pc = "copy"
  /\ threads' = [threads EXCEPT ![c] =
                   IF strings_requested
                     THEN [@ EXCEPT !.pc = "copy_system",
                                    !.locks = @ \cup {"system"}]
                     ELSE [@ EXCEPT !.pc = "copy_done"]]
  /\ UNCHANGED <<system, printer, client, now>>

\* Line 415 or 441: the system lock is released.
gpa_system_unlock(c) ==
  /\ threads[c].pc = "copy_system"
  /\ threads' = [threads EXCEPT ![c].pc = "copy_done",
                                ![c].locks = @ \ {"system"}]
  /\ UNCHANGED <<system, printer, client, now>>

\* Line 1264: the printer lock is released and the response sent.
gpa_unlock(c) ==
  /\ threads[c].pc = "copy_done"
  /\ threads' = [threads EXCEPT ![c] = IdleThread]
  /\ UNCHANGED <<system, printer, client, now>>

\* Identify-Printer, line 1284 to 1301: the identify callback is called when
\* the driver has one; otherwise the request is answered at once.
identify_call(c) ==
  /\ threads[c].pc = "idle"
  /\ printer.driver_data.identify_cb
  /\ threads' = [threads EXCEPT ![c].pc = "identify_cb"]
  /\ UNCHANGED <<system, printer, client, now>>

\* Line 1301 to 1304: the identify callback returns and the request is
\* answered.
identify_done(c) ==
  /\ threads[c].pc = "identify_cb"
  /\ threads' = [threads EXCEPT ![c] = IdleThread]
  /\ UNCHANGED <<system, printer, client, now>>

GetPrinterAttributes ==
  \E c \in Clients :
    \/ gpa_status_test(c)
    \/ gpa_status_done(c)
    \/ gpa_rdlock(c)
    \/ \E strings_requested \in BOOLEAN : gpa_copy(c, strings_requested)
    \/ gpa_system_unlock(c)
    \/ gpa_unlock(c)

IdentifyPrinter == \E c \in Clients : identify_call(c) \/ identify_done(c)

\* A Print-Job with its document and no job template attribute; job
\* creation waits for the readers of the printer.
StatusPrintJob ==
  /\ NoReader
  /\ ipp_print_job([format |-> "", have_data |-> TRUE, attrs |-> NoAttrs], TRUE)

\* The worker changes the printer under its write lock.
StatusStartJob == NoReader /\ _papplPrinterCheckJobs

StatusFinishJob == NoReader /\ _papplJobProcess(TRUE, TRUE)

NextStatus ==
  \/ GetPrinterAttributes
  \/ IdentifyPrinter
  \/ StatusPrintJob
  \/ StatusStartJob
  \/ StatusFinishJob
  \/ Tick

SpecStatus == Init /\ [][NextStatus]_vars

----------------------------------------------------------------------------
(* Admission of one request: the request, the operation, the driver and the *)
(* shutdown deadline are drawn from bounded sets and the handler is applied *)

\* Values tried for each job template attribute: in range, at and beyond the
\* limits, with a wrong tag and with two values.
AttrCandidates(name) ==
  CASE name = "copies" ->
         {IntAttr("integer", 1, v) : v \in {0, 1, 2, 999, 1000}}
           \cup {IntAttr("integer", 2, 1), StrAttr("keyword", 1, "many")}
    [] name = "ipp-attribute-fidelity" ->
         {IntAttr("boolean", 1, 1), IntAttr("integer", 1, 1),
          IntAttr("boolean", 2, 1)}
    [] name = "job-hold-until" ->
         {StrAttr("keyword", 1, "no-hold"), StrAttr("keyword", 1, "indefinite"),
          StrAttr("name", 1, "no-hold"), IntAttr("integer", 1, 0)}
    [] name = "job-impressions" ->
         {IntAttr("integer", 1, 0), IntAttr("integer", 1, -1),
          IntAttr("integer", 2, 1)}
    [] name = "job-name" ->
         {StrAttr("name", 1, "doc"), StrAttr("keyword", 1, "doc"),
          StrAttr("name", 2, "doc")}
    [] name = "job-priority" ->
         {IntAttr("integer", 1, v) : v \in {0, 1, 100, 101}}
    [] name = "job-sheets" ->
         {StrAttr("keyword", 1, "none"), StrAttr("keyword", 1, "standard")}
    [] name = "media" ->
         {StrAttr("keyword", 1, "na_letter_8.5x11in"),
          StrAttr("keyword", 1, "oe_address-label_1.25x3.5in"),
          IntAttr("integer", 1, 1)}
    [] name = "media-col" ->
         {ColAttr("collection", 1,
                  SizeNameMember("keyword", 1, "na_letter_8.5x11in")),
          ColAttr("collection", 1, SizeNameMember("integer", 1, "")),
          ColAttr("collection", 1, SizeMember(1, 1, 21590, 1, 27940)),
          ColAttr("collection", 1, SizeMember(1, 1, 1, 1, 1)),
          ColAttr("collection", 1, SizeMember(1, 1, 21590, 0, 0)),
          ColAttr("collection", 1, SizeMember(2, 1, 21590, 1, 27940)),
          ColAttr("collection", 1, NoMember),
          ColAttr("collection", 2, SizeNameMember("keyword", 1, "bogus")),
          ColAttr("integer", 1, NoMember)}
    [] name = "multiple-document-handling" ->
         {StrAttr("keyword", 1, "separate-documents-collated-copies"),
          StrAttr("keyword", 1, "single-document")}
    [] name = "orientation-requested" ->
         {IntAttr("enum", 1, v) : v \in {2, 3, 7, 8}}
           \cup {IntAttr("integer", 1, 3)}
    [] name = "page-ranges" ->
         {RangeAttr("rangeOfInteger", 1, 1, 5),
          RangeAttr("rangeOfInteger", 1, 0, 5),
          RangeAttr("rangeOfInteger", 1, 5, 1),
          RangeAttr("rangeOfInteger", 2, 1, 5)}
    [] name = "print-color-mode" ->
         {StrAttr("keyword", 1, "color"), StrAttr("keyword", 1, "monochrome"),
          StrAttr("keyword", 1, "bi-level")}
    [] name = "print-content-optimize" ->
         {StrAttr("keyword", 1, "photo"), StrAttr("keyword", 1, "bogus")}
    [] name = "print-darkness" ->
         {IntAttr("integer", 1, v) : v \in {-101, -100, 0, 100, 101}}
    [] name = "print-quality" ->
         {IntAttr("enum", 1, v) : v \in {2, 3, 5, 6}}
    [] name = "print-scaling" ->
         {StrAttr("keyword", 1, "fit"), StrAttr("keyword", 1, "bogus")}
    [] name = "print-speed" ->
         {IntAttr("integer", 1, v) : v \in {0, 1, 6, 7}}
    [] name = "printer-resolution" ->
         {ResAttr("resolution", 1, 300, 300, "dpi"),
          ResAttr("resolution", 1, 203, 203, "dpi"),
          ResAttr("resolution", 1, 300, 300, "dpcm"),
          ResAttr("resolution", 1, 1200, 1200, "dpi")}
    [] name = "sides" ->
         {StrAttr("keyword", 1, "one-sided"),
          StrAttr("keyword", 1, "two-sided-long-edge"),
          StrAttr("keyword", 1, "bogus")}

\* No attribute, one attribute, or copies (in range or not) with one other.
AdmitAttrs ==
  {NoAttrs}
    \cup UNION {{OneAttr(n, a) : a \in AttrCandidates(n)} : n \in JobAttrNames}
    \cup UNION {{TwoAttrs("copies", IntAttr("integer", 1, c), n, a) :
                   a \in AttrCandidates(n), c \in {2, 1000}} :
                 n \in JobAttrNames \ {"copies"}}

AdmitRequests ==
  [format : {"", "image/pwg-raster", "text/plain"},
   have_data : BOOLEAN,
   attrs : AdmitAttrs]

\* A request that was read and not yet handled.
Received(op, req) == Respond(op, req, "none", "received", <<>>, 0)

InitAdmit ==
  /\ system \in {[papplSystemCreate EXCEPT !.shutdown_time = t] : t \in {0, 1}}
  /\ printer \in {NewPrinter(drv) : drv \in Drivers}
  /\ client \in {Received(op, req) :
                   op \in {"Print-Job", "Create-Job", "Validate-Job"},
                   req \in AdmitRequests}
  /\ threads = [c \in Clients |-> IdleThread]
  /\ now = StartTime

AdmitPrintJob ==
  /\ client = Received("Print-Job", client.request)
  /\ \E created \in BOOLEAN : ipp_print_job(client.request, created)

AdmitCreateJob ==
  /\ client = Received("Create-Job", client.request)
  /\ \E created \in BOOLEAN : ipp_create_job(client.request, created)

AdmitValidateJob ==
  /\ client = Received("Validate-Job", client.request)
  /\ ipp_validate_job(client.request)

NextAdmit == AdmitPrintJob \/ AdmitCreateJob \/ AdmitValidateJob

SpecAdmit == InitAdmit /\ [][NextAdmit]_vars

----------------------------------------------------------------------------
(* Set-Printer-Attributes and Get-Printer-Attributes on one printer by      *)
(* several client threads, followed statement by statement with the         *)
(* printer's reader/writer lock                                             *)

\* Requests that each set the location and the organization, the last one
\* with an organization of the wrong syntax.
RWRequests ==
  { <<SetAttr("printer", "printer-location", StrAttr("text", 1, "Lab")),
      SetAttr("printer", "printer-organization", StrAttr("text", 1, "Org"))>>,
    <<SetAttr("printer", "printer-organization", StrAttr("text", 1, "Org2")),
      SetAttr("printer", "printer-location", StrAttr("text", 1, "Lab2"))>>,
    <<SetAttr("printer", "printer-location", StrAttr("text", 1, "Lab3")),
      SetAttr("printer", "printer-organization",
              StrAttr("keyword", 1, "org3"))>> }

\* The printer fields a response carries, in the order they are copied.
CopiedFields == <<"config_time", "location", "organization">>

\* A client thread with its remaining request and the response built so far.
RWIdleThread ==
  [pc |-> "idle", locks |-> {}, cb_time |-> 0, request |-> <<>>,
   copied |-> <<>>]

InitRW ==
  /\ system = papplSystemCreate
  /\ printer = NewPrinter(TestDriver)
  /\ client = papplClientCreate
  /\ threads = [c \in Clients |-> RWIdleThread]
  /\ now = StartTime

\* No thread holds the printer lock for reading or for writing.
PrinterUnlocked ==
  \A c \in Clients : threads[c].locks \cap {"printer", "printer-wr"} = {}

\* No thread holds the printer lock for writing.
NoWriter == \A c \in Clients : "printer-wr" \notin threads[c].locks

\* A read lock granted while a writer holds the lock.
copy_rdlock_NoWait(c) ==
  /\ threads[c].pc = "idle"
  /\ threads' = [threads EXCEPT ![c].pc = "copy", ![c].locks = {"printer"},
                                ![c].copied = <<>>]
  /\ UNCHANGED <<system, printer, client, now>>

\* Get-Printer-Attributes, line 1260: the printer is read-locked, which
\* waits for a writer.
copy_rdlock(c) ==
  /\ threads[c].pc = "idle"
  /\ NoWriter
  /\ threads' = [threads EXCEPT ![c].pc = "copy", ![c].locks = {"printer"},
                                ![c].copied = <<>>]
  /\ UNCHANGED <<system, printer, client, now>>

\* _papplPrinterCopyAttributes, lines 292, 376 and 387: the next field is
\* copied to the response.
copy_attribute(c) ==
  /\ threads[c].pc = "copy"
  /\ Len(threads[c].copied) < Len(CopiedFields)
  /\ threads' = [threads EXCEPT ![c].copied =
                   Append(@, printer[CopiedFields[Len(@) + 1]])]
  /\ UNCHANGED <<system, printer, client, now>>

\* Line 1264: the printer lock is released; copied is the response sent.
copy_unlock(c) ==
  /\ threads[c].pc = "copy"
  /\ Len(threads[c].copied) = Len(CopiedFields)
  /\ threads' = [threads EXCEPT ![c].pc = "idle", ![c].locks = {}]
  /\ UNCHANGED <<system, printer, client, now>>

\* _papplPrinterSetAttributes, lines 781 to 823: the preflight, after which
\* a request with unsupported attributes is answered.
set_preflight(c, sreq) ==
  /\ threads[c].pc = "idle"
  /\ threads' = [threads EXCEPT ![c] =
                   IF Preflight(sreq, printer.driver_data, FALSE) # <<>>
                     THEN RWIdleThread
                     ELSE [RWIdleThread EXCEPT !.pc = "wrlock",
                                               !.request = sreq]]
  /\ UNCHANGED <<system, printer, client, now>>

\* Line 826: the printer is write-locked, which waits for readers and
\* writers.
set_wrlock(c) ==
  /\ threads[c].pc = "wrlock"
  /\ PrinterUnlocked
  /\ threads' = [threads EXCEPT ![c].pc = "apply", ![c].locks = {"printer-wr"}]
  /\ UNCHANGED <<system, printer, client, now>>

\* Lines 828 to 961: one turn of the loop applies the next attribute.
set_apply(c) ==
  /\ threads[c].pc = "apply"
  /\ threads[c].request # <<>>
  /\ printer' = ApplyAttribute(printer, Head(threads[c].request))
  /\ threads' = [threads EXCEPT ![c].request = Tail(@)]
  /\ UNCHANGED <<system, client, now>>

\* Line 963: config_time is set after the last attribute.
set_config_time(c) ==
  /\ threads[c].pc = "apply"
  /\ threads[c].request = <<>>
  /\ printer' = [printer EXCEPT !.config_time = now]
  /\ threads' = [threads EXCEPT ![c].pc = "unlock"]
  /\ UNCHANGED <<system, client, now>>

\* Line 965: the printer lock is released.
set_unlock(c) ==
  /\ threads[c].pc = "unlock"
  /\ threads' = [threads EXCEPT ![c].pc = "changed", ![c].locks = {}]
  /\ UNCHANGED <<system, printer, client, now>>

\* Line 967: the system is told of the change and the request is answered.
set_changed(c) ==
  /\ threads[c].pc = "changed"
  /\ system' = _papplSystemConfigChanged(system)
  /\ threads' = [threads EXCEPT ![c].pc = "idle"]
  /\ UNCHANGED <<printer, client, now>>

RWGetPrinterAttributes ==
  \E c \in Clients : copy_rdlock(c) \/ copy_attribute(c) \/ copy_unlock(c)

RWSetPrinterAttributes ==
  \E c \in Clients :
    \/ \E sreq \in RWRequests : set_preflight(c, sreq)
    \/ set_wrlock(c)
    \/ set_apply(c)
    \/ set_config_time(c)
    \/ set_unlock(c)
    \/ set_changed(c)

NextRW == RWGetPrinterAttributes \/ RWSetPrinterAttributes \/ Tick

SpecRW == InitRW /\ [][NextRW]_vars

----------------------------------------------------------------------------
(* The geolocation of the system and of the printer, set through the API    *)
(* and through Set-Printer-Attributes                                       *)

InitGeo ==
  /\ system = papplSystemSetGeoLocation(papplSystemCreate,
                                        "geo:46.4707,-80.9961")
  /\ printer = papplPrinterSetGeoLocation(NewPrinter(TestDriver),
                                          "geo:46.4707,-80.9961")
  /\ client = papplClientCreate
  /\ threads = [c \in Clients |-> IdleThread]
  /\ now = StartTime

SystemSetGeoLocation ==
  /\ \E value \in GeoTried \cup {""} :
       system' = papplSystemSetGeoLocation(system, value)
  /\ UNCHANGED <<printer, client, threads, now>>

PrinterSetGeoLocation ==
  /\ \E value \in GeoTried \cup {""} :
       printer' = papplPrinterSetGeoLocation(printer, value)
  /\ UNCHANGED <<system, client, threads, now>>

\* Set-Printer-Attributes with printer-geo-location as its one attribute.
SetPrinterGeoLocation ==
  \E value \in GeoTried, auth_status \in AuthStatuses :
    ipp_set_printer_attributes(
      <<SetAttr("printer", "printer-geo-location", StrAttr("uri", 1, value))>>,
      auth_status)

NextGeo ==
  \/ SystemSetGeoLocation
  \/ PrinterSetGeoLocation
  \/ SetPrinterGeoLocation
  \/ Tick

SpecGeo == InitGeo /\ [][NextGeo]_vars

----------------------------------------------------------------------------
(* The system API as test_api calls it: one setter followed by its getter   *)

SystemFields ==
  {"admin_group", "contact", "default_printer_id", "default_print_group",
   "dns_sd_name", "hostname", "location", "log_level", "max_log_size",
   "organization", "org_unit", "versions", "geo_location", "footer_html",
   "uuid", "next_printer_id"}

\* The values test_api gives to the setter of field; "" is NULL.
SetValues(field) ==
  CASE field = "admin_group" -> {"", "admin-0", "admin-1"}
    [] field = "contact" ->
         {Contact("Admin 0", "admin-0@example.org", "+1-705-555-0000"),
          Contact("Admin 1", "admin-1@example.org", "+1-705-555-1111")}
    [] field = "default_printer_id" -> {1, 2}
    [] field = "default_print_group" -> {"", "users-0", "users-1"}
    [] field = "dns_sd_name" -> {"", "System Test A", "System Test B"}
    [] field = "hostname" -> {"", "example0.org", "example1.org"}
    [] field = "location" -> {"", "Great Pyramid of Giza", "Science North"}
    [] field = "log_level" -> {"debug", "info", "warn", "error", "fatal"}
    [] field = "max_log_size" -> {0, 1048576, 2097152}
    [] field = "organization" -> {"", "Organization A", "Organization B"}
    [] field = "org_unit" -> {"", "A Team", "B Team"}
    [] field = "versions" ->
         {<<Version("Component 1", "1.1 build 2")>>,
          <<Version("Component 1", "1.1 build 2"),
            Version("Component 2", "2.1 build 3")>>}
    [] field = "geo_location" -> GeoTried \cup {""}
    [] field = "footer_html" -> {"Mike wuz here."}
    [] field = "uuid" -> {"", "urn:uuid:0001", "urn:uuid:0002"}
    [] OTHER -> {4, 5}

\* The thread of run_tests with the locals of test_api.
TestThread(field, value) ==
  [pc |-> "idle", locks |-> {}, cb_time |-> 0, field |-> field,
   set_value |-> value, prev_value |-> value, get_value |-> value,
   was_running |-> FALSE]

InitSys ==
  /\ system = TestSystem
  /\ printer = NewPrinter(TestDriver)
  /\ client = papplClientCreate
  /\ \E field \in SystemFields :
       threads = [c \in Clients |->
                    IF c = 1
                      THEN TestThread(field, papplSystemGet(TestSystem, field))
                      ELSE IdleThread]
  /\ now = StartTime

SystemRun ==
  /\ ~system.is_running
  /\ system' = papplSystemRun(system)
  /\ UNCHANGED <<printer, client, threads, now>>

\* test_api calls the setter of its field,
TestSet ==
  /\ threads[1].pc = "idle"
  /\ \E value \in SetValues(threads[1].field) :
       /\ system' = papplSystemSet(system, threads[1].field, value)
       /\ threads' = [threads EXCEPT
            ![1].pc = "set",
            ![1].set_value = value,
            ![1].prev_value = papplSystemGet(system, threads[1].field),
            ![1].was_running = system.is_running]
  /\ UNCHANGED <<printer, client, now>>

\* then the getter,
TestGet ==
  /\ threads[1].pc = "set"
  /\ threads' = [threads EXCEPT
       ![1].pc = "got",
       ![1].get_value = papplSystemGet(system, threads[1].field)]
  /\ UNCHANGED <<system, printer, client, now>>

\* and goes on to the next value.
TestNext ==
  /\ threads[1].pc = "got"
  /\ threads' = [threads EXCEPT ![1].pc = "idle"]
  /\ UNCHANGED <<system, printer, client, now>>

NextSys == SystemRun \/ TestSet \/ TestGet \/ TestNext

SpecSys == InitSys /\ [][NextSys]_vars

----------------------------------------------------------------------------
(* Printers of the system created, deleted and looked up by test_api and    *)
(* by the client                                                            *)

MaxPrinterID == 4

PrinterNames == {"test0", "test1"}

Resources ==
  {"/", "/ipp/print"} \cup {PrinterPath(name) : name \in PrinterNames}

\* The thread of run_tests: the last call, its arguments, the printer it
\* gave and every printer id seen so far.
PrinterTestThread ==
  [pc |-> "idle", locks |-> {}, cb_time |-> 0, last |-> "none",
   resource |-> "", printer_id |-> 0, found |-> NoPrinter,
   assigned |-> PrinterIDs(TestSystem)]

InitPrinters ==
  /\ system = TestSystem
  /\ printer = NewPrinter(TestDriver)
  /\ client = papplClientCreate
  /\ threads = [c \in Clients |->
                  IF c = 1 THEN PrinterTestThread ELSE IdleThread]
  /\ now = StartTime

PrinterCreate ==
  /\ system.next_printer_id <= MaxPrinterID
  /\ \E name \in PrinterNames :
       LET r == papplPrinterCreate(system, name)
       IN  /\ system' = r.system
           /\ threads' = [threads EXCEPT
                ![1].last = "create", ![1].resource = "",
                ![1].printer_id = 0, ![1].found = r.printer_id,
                ![1].assigned = @ \cup ({r.printer_id} \ {NoPrinter})]
  /\ UNCHANGED <<printer, client, now>>

PrinterDelete ==
  /\ \E printer_id \in PrinterIDs(system) :
       /\ system' \in papplPrinterDelete(system, printer_id)
       /\ threads' = [threads EXCEPT
            ![1].last = "delete", ![1].resource = "",
            ![1].printer_id = printer_id, ![1].found = NoPrinter]
  /\ UNCHANGED <<printer, client, now>>

\* papplSystemFindPrinter by path or by id.
FindPrinter ==
  /\ \E resource \in Resources \cup {""}, printer_id \in 0..MaxPrinterID :
       /\ (resource = "") # (printer_id = 0)
       /\ threads' = [threads EXCEPT
            ![1].last = "find", ![1].resource = resource,
            ![1].printer_id = printer_id,
            ![1].found = papplSystemFindPrinter(system, resource, printer_id)]
  /\ UNCHANGED <<system, printer, client, now>>

\* Get-Printer-Attributes sent to a path: the request goes to the printer
\* found for the path, or is answered with not-found.
ClientGetPrinterAttributes ==
  /\ \E resource \in Resources :
       LET found == papplSystemFindPrinter(system, resource, 0)
       IN  /\ threads' = [threads EXCEPT
                ![1].last = "request", ![1].resource = resource,
                ![1].printer_id = 0, ![1].found = found]
           /\ client' = papplClientRespondIPP("Get-Printer-Attributes",
                          NoRequest,
                          IF found = NoPrinter THEN "client-error-not-found"
                                               ELSE "successful-ok")
  /\ UNCHANGED <<system, printer, now>>

SetDefaultPrinterID ==
  /\ \E printer_id \in 1..MaxPrinterID :
       system' = papplSystemSet(system, "default_printer_id", printer_id)
  /\ UNCHANGED <<printer, client, threads, now>>

\* papplSystemSetNextPrinterID with an id above the ones in use, as in
\* test_api.
SetNextPrinterID ==
  /\ \E next_printer_id \in (system.next_printer_id + 1)..(MaxPrinterID + 1) :
       system' = papplSystemSet(system, "next_printer_id", next_printer_id)
  /\ UNCHANGED <<printer, client, threads, now>>

NextPrinters ==
  \/ SystemRun
  \/ PrinterCreate
  \/ PrinterDelete
  \/ FindPrinter
  \/ ClientGetPrinterAttributes
  \/ SetDefaultPrinterID
  \/ SetNextPrinterID

SpecPrinters == InitPrinters /\ [][NextPrinters]_vars

----------------------------------------------------------------------------
(* Operations _papplPrinterProcessIPP has no case for                       *)

OtherOperations == {"Purge-Jobs", "Hold-New-Jobs"}

\* A default case that answers successful-ok when the request was not
\* consumed.
_papplPrinterProcessIPP_default_Ok(op, consumed) ==
  /\ client' = papplClientRespondIPP(op, NoRequest, "successful-ok")
  /\ UNCHANGED <<system, printer, threads, now>>

\* _papplPrinterProcessIPP, default case: the operation callback of the
\* system, when there is one, gets the request; consumed is its result, and
\* a callback that returns true has answered the request itself.
_papplPrinterProcessIPP_default(op, consumed) ==
  /\ client' =
       IF system.op_cb /\ consumed
         THEN papplClientRespondIPP(op, NoRequest, "successful-ok")
         ELSE papplClientRespondIPP(op, NoRequest,
                                    "server-error-operation-not-supported")
  /\ UNCHANGED <<system, printer, threads, now>>

InitDispatch ==
  /\ system \in {[papplSystemCreate EXCEPT !.op_cb = cb] : cb \in BOOLEAN}
  /\ printer = NewPrinter(TestDriver)
  /\ client = papplClientCreate
  /\ threads = [c \in Clients |-> IdleThread]
  /\ now = StartTime

OtherOperation ==
  \E op \in OtherOperations, consumed \in BOOLEAN :
    _papplPrinterProcessIPP_default(op, consumed)

NextDispatch ==
  \/ PrintJob
  \/ StartJob
  \/ FinishJob
  \/ PausePrinter
  \/ ResumePrinter
  \/ OtherOperation

SpecDispatch == InitDispatch /\ [][NextDispatch]_vars

----------------------------------------------------------------------------
(* The printer state reported while jobs print, the printer is paused and   *)
(* resumed and the driver reports reasons                                   *)

\* The driver's status callback sets the reasons of the printer.
SetReasons ==
  /\ \E reasons \in SUBSET {PReasons[i] : i \in 1..Len(PReasons)} :
       printer' = [printer EXCEPT !.state_reasons = reasons]
  /\ UNCHANGED <<system, client, threads, now>>

NextState ==
  \/ StatusPrintJob
  \/ StartJob
  \/ FinishJob
  \/ PausePrinter
  \/ ResumePrinter
  \/ SetReasons

SpecState == Init /\ [][NextState]_vars

----------------------------------------------------------------------------
(* One Set-Printer-Attributes or Create-Printer request: the request, the   *)
(* driver and the printer's earlier configuration are drawn from bounded    *)
(* sets and the handler is applied                                          *)

\* A driver with one vendor attribute; vendor holds its xxx-default name.
VendorDriver == [TestDriver EXCEPT !.vendor = {"vendor-foo-default"}]

\* Attributes tried: settable ones, one of the operation group, and ones
\* with the wrong syntax, too many values, an unknown name or the job group.
SetCandidates ==
  { SetAttr("printer", "printer-location", StrAttr("text", 1, "Lab")),
    SetAttr("printer", "printer-organization", StrAttr("text", 1, "Org")),
    SetAttr("printer", "printer-organizational-unit",
            StrAttr("text", 1, "Unit")),
    SetAttr("printer", "printer-geo-location",
            StrAttr("uri", 1, "geo:46.4707,-80.9961")),
    SetAttr("printer", "label-tear-off-configured", IntAttr("integer", 1, 5)),
    SetAttr("printer", "vendor-foo-default", StrAttr("keyword", 1, "bar")),
    SetAttr("operation", "printer-uri",
            StrAttr("uri", 1, "ipp://localhost/ipp/print")),
    SetAttr("printer", "printer-location", StrAttr("keyword", 1, "Lab")),
    SetAttr("printer", "printer-location", StrAttr("text", 2, "Lab")),
    SetAttr("printer", "printer-name", StrAttr("name", 1, "Printer 2")),
    SetAttr("printer", "print-scaling-default", StrAttr("keyword", 1, "fit")),
    SetAttr("job", "copies", IntAttr("integer", 1, 1)) }

\* Requests of one attribute or two different ones.
SetRequestsTried ==
  {<<ra>> : ra \in SetCandidates}
    \cup {sreq \in {<<ra1, ra2>> : ra1 \in SetCandidates,
                                   ra2 \in SetCandidates} : sreq[1] # sreq[2]}

\* A printer that was configured before.
ConfiguredPrinter(drv) ==
  [NewPrinter(drv) EXCEPT !.location = "Office", !.config_time = 1]

InitSet ==
  /\ system = papplSystemCreate
  /\ printer \in {NewPrinter(drv) : drv \in Drivers \cup {VendorDriver}}
                   \cup {ConfiguredPrinter(VendorDriver)}
  /\ client \in {Received(op, sreq) :
                   op \in {"Set-Printer-Attributes", "Create-Printer"},
                   sreq \in SetRequestsTried}
  /\ threads = [c \in Clients |-> IdleThread]
  /\ now = StartTime

SetOneRequest ==
  /\ client = Received("Set-Printer-Attributes", client.request)
  /\ \E auth_status \in AuthStatuses :
       ipp_set_printer_attributes(client.request, auth_status)

CreatePrinterOneRequest ==
  /\ client = Received("Create-Printer", client.request)
  /\ ipp_create_printer(client.request)

NextSet == SetOneRequest \/ CreatePrinterOneRequest

SpecSet == InitSet /\ [][NextSet]_vars

----------------------------------------------------------------------------
(* Set-Printer-Attributes and Get-Printer-Attributes in turn on one         *)
(* printer, with the attributes of the response                             *)

\* ippCreateRequestedArray: the names of requested-attributes; NULL, here
\* the empty set, when the request has none or asks for "all".
ippCreateRequestedArray(req) ==
  IF ~ippFindAttribute(req, "requested-attributes")
    THEN {}
    ELSE LET a == req.attrs["requested-attributes"]
             names == {ippGetString(a, i) : i \in 1..a.count}
         IN  IF "all" \in names THEN {} ELSE names

\* ippGetString(ippFindAttribute(request, "document-format",
\* IPP_TAG_MIMETYPE), 0, NULL), "" for NULL.
RequestFormat(req) ==
  IF /\ ippFindAttribute(req, "document-format")
     /\ req.attrs["document-format"].tag = "mimeMediaType"
    THEN req.attrs["document-format"].str
    ELSE ""

\* The languages of the system's resources that have one; resources holds
\* the language of each resource, "" for none.
ResourceLanguages(sys) == SelectSeq(sys.resources, LAMBDA l : l # "")

\* _papplPrinterCopyAttributes, line 405 to 419: printer->attrs after the
\* call.  When printer-strings-languages-supported is requested and a
\* resource has a language, the attribute is added to printer->attrs.
printer_strings_languages_supported(p, sys, ra) ==
  IF /\ Requested(ra, "printer-strings-languages-supported")
     /\ ResourceLanguages(sys) # <<>>
    THEN Append(p.attrs,
                [name |-> "printer-strings-languages-supported",
                 attr |-> [KeywordsAttr(ResourceLanguages(sys))
                             EXCEPT !.tag = "naturalLanguage"]])
    ELSE p.attrs

\* Get-Printer-Attributes: the status is refreshed when the printer is not
\* busy and the last refresh is more than a second old, then the requested
\* attributes are copied to the response under the read lock.
ipp_get_printer_attributes(greq) ==
  LET p1 == IF /\ ~printer.device_in_use
               /\ printer.processing_job = NoJob
               /\ now - printer.status_time > 1
               /\ printer.driver_data.status_cb
              THEN [printer EXCEPT !.status_time = now]
              ELSE printer
      ra == ippCreateRequestedArray(greq)
      attrs == printer_strings_languages_supported(p1, system, ra)
  IN  /\ Len(attrs) <= MaxAttrs
      /\ printer' = [p1 EXCEPT !.attrs = attrs]
      /\ client' = [papplClientRespondIPP("Get-Printer-Attributes", greq,
                                          "successful-ok")
                      EXCEPT !.attrs = _papplPrinterCopyAttributes(
                                         p1, system, ra, RequestFormat(greq))]
      /\ UNCHANGED <<system, threads, now>>

\* Get-Printer-Attributes requests tried.  For all attributes: no
\* document-format, the two raster formats, another format and a
\* document-format that is not of the mimeMediaType syntax.  Without a
\* document-format: "all" and some attributes by name.
GetAttrRequests ==
  { [format |-> "", have_data |-> FALSE, attrs |-> a] :
      a \in {NoAttrs}
              \cup {OneAttr("document-format", StrAttr("mimeMediaType", 1, f)) :
                      f \in {"image/pwg-raster", "image/urf",
                             "application/pdf"}}
              \cup {OneAttr("document-format",
                            StrAttr("keyword", 1, "image/urf")),
                    OneAttr("requested-attributes", KeywordsAttr(<<"all">>)),
                    OneAttr("requested-attributes",
                            KeywordsAttr(<<"copies-supported", "media-ready",
                                           "printer-organizational-unit">>))} }

\* The label printer and the printer with a vendor attribute.
AttrsDrivers == (Drivers \ {TestDriver}) \cup {VendorDriver}

\* The system without resources and with two resources, one of them a
\* strings file of the language en.
AttrsSystems ==
  {papplSystemCreate, [papplSystemCreate EXCEPT !.resources = <<"", "en">>]}

\* Set-Printer-Attributes requests tried, of one attribute each: text
\* attributes, an enum default, a vendor default, and media-ready and
\* media-col-ready with known and unknown sizes.
AttrSetRequests ==
  { <<SetAttr("printer", "printer-location", StrAttr("text", 1, "Lab"))>>,
    <<SetAttr("printer", "printer-organizational-unit",
              StrAttr("text", 1, "Unit"))>>,
    <<SetAttr("printer", "print-quality-default", IntAttr("enum", 1, 5))>>,
    <<SetAttr("printer", "vendor-foo-default", StrAttr("keyword", 1, "bar"))>>,
    <<SetAttr("printer", "media-ready",
              KeywordsAttr(<<"iso_a4_210x297mm", "na_letter_8.5x11in">>))>>,
    <<SetAttr("printer", "media-ready",
              KeywordsAttr(<<"unknown_size", "iso_a4_210x297mm",
                             "unknown_size">>))>>,
    <<SetAttr("printer", "media-col-ready",
              CollectionsAttr(<<SizeMember(1, 1, 21000, 1, 29700),
                                SizeNameMember("keyword", 1, "unknown_size"),
                                SizeMember(1, 1, 10000, 1, 15000),
                                SizeMember(1, 1, 10000, 0, 0)>>))>>,
    <<SetAttr("printer", "media-col-ready",
              CollectionsAttr(<<SizeNameMember("keyword", 1,
                                               "na_letter_8.5x11in")>>))>>,
    <<SetAttr("printer", "media-ready", StrAttr("name", 1, "iso_a4_210x297mm"))>> }

InitAttrs ==
  /\ system \in AttrsSystems
  /\ printer \in {NewPrinter(drv) : drv \in AttrsDrivers}
  /\ client = papplClientCreate
  /\ threads = [c \in Clients |-> IdleThread]
  /\ now = StartTime

AttrsGet == \E greq \in GetAttrRequests : ipp_get_printer_attributes(greq)

AttrsSet ==
  \E sreq \in AttrSetRequests : ipp_set_printer_attributes(sreq, "continue")

NextAttrs == AttrsGet \/ AttrsSet

SpecAttrs == InitAttrs /\ [][NextAttrs]_vars

----------------------------------------------------------------------------
(* Print-Job and Create-Job followed in two steps, admission and job        *)
(* creation, on concurrent client threads next to a shutdown request        *)

\* A client thread between valid_job_attributes and create_job.
AdmittedThread(op, req) ==
  [pc |-> "create", locks |-> {}, cb_time |-> 0, op |-> op, request |-> req]

\* Print-Job up to line 1352 and Create-Job up to line 1099: the test for
\* document data and valid_job_attributes, which looks at shutdown_time
\* first and holds the printer's read lock only for its attribute checks.
job_admission(c, op, req) ==
  /\ threads[c].pc = "idle"
  /\ LET v == valid_job_attributes(req, system, printer.driver_data)
     IN  IF req.have_data # (op = "Print-Job")
           THEN /\ client' = papplClientRespondIPP(op, req,
                                                   "client-error-bad-request")
                /\ UNCHANGED threads
           ELSE IF ~v.valid
             THEN /\ client' = Respond(op, req, "none", v.status,
                                       v.unsupported, 0)
                  /\ UNCHANGED threads
             ELSE /\ threads' = [threads EXCEPT ![c] = AdmittedThread(op, req)]
                  /\ UNCHANGED client
  /\ UNCHANGED <<system, printer, now>>

\* Print-Job from line 1355 and Create-Job from line 1102: create_job and
\* the response.
job_create(c, created) ==
  /\ threads[c].pc = "create"
  /\ LET op == threads[c].op
         req == threads[c].request
     IN  IF ~created
           THEN /\ client' = papplClientRespondIPP(op, req, "server-error-busy")
                /\ UNCHANGED printer
           ELSE /\ CanCreate(printer)
                /\ LET p1 == create_job(printer, req)
                       j  == Len(p1.all_jobs)
                   IN  /\ printer' = IF op = "Print-Job"
                                       THEN _papplJobCopyDocumentData(p1, j)
                                       ELSE p1
                       /\ client' = Respond(op, req, "none", "successful-ok",
                                            <<>>, p1.all_jobs[j].job_id)
  /\ threads' = [threads EXCEPT ![c] = IdleThread]
  /\ UNCHANGED <<system, now>>

ShutAdmission ==
  \E c \in Clients, op \in {"Print-Job", "Create-Job"}, req \in Requests :
    job_admission(c, op, req)

ShutCreate == \E c \in Clients, created \in BOOLEAN : job_create(c, created)

NextShut ==
  \/ ShutAdmission
  \/ ShutCreate
  \/ Shutdown
  \/ StartJob
  \/ FinishJob

SpecShut == Init /\ [][NextShut]_vars

----------------------------------------------------------------------------
(* Get-Jobs with limit and my-jobs on a printer with jobs of several owners *)

\* Print-Job requests of the users alice and Bob.
UserRequests ==
  { [format |-> "", have_data |-> TRUE,
     attrs |-> OneAttr("requesting-user-name", StrAttr("name", 1, u))] :
      u \in {"alice", "Bob"} }

\* Get-Jobs requests tried.  With no my-jobs: which-jobs absent, all or
\* completed and limit absent, -1, 1 or 2.  With which-jobs all: limit
\* absent or 1, my-jobs absent, true or false, and the user name absent, in
\* another case than the owner's, or not of the name syntax.
MyJobsRequests ==
  [which_jobs : {NoAttr, StrAttr("keyword", 1, "all"),
                 StrAttr("keyword", 1, "completed")},
   limit : {NoAttr} \cup {IntAttr("integer", 1, l) : l \in {-1, 1, 2}},
   my_jobs : {NoAttr},
   username : {NoAttr}]
  \cup
  [which_jobs : {StrAttr("keyword", 1, "all")},
   limit : {NoAttr, IntAttr("integer", 1, 1)},
   my_jobs : {NoAttr, IntAttr("boolean", 1, 1), IntAttr("boolean", 1, 0)},
   username : {NoAttr, StrAttr("name", 1, "ALICE"),
               StrAttr("keyword", 1, "bob")}]

JobsPrintJob == \E req \in UserRequests : ipp_print_job(req, TRUE)

JobsGetJobs == \E greq \in MyJobsRequests : ipp_get_jobs(greq)

NextJobs ==
  \/ JobsPrintJob
  \/ StartJob
  \/ FinishJob
  \/ JobsGetJobs

SpecJobs == Init /\ [][NextJobs]_vars

----------------------------------------------------------------------------
(* Cancel-Current-Job followed statement by statement on concurrent client  *)
(* threads, next to the processing worker                                   *)

\* A client thread inside Cancel-Current-Job at pc, with its local variable
\* job.
CancelThread(pc, job) ==
  [pc |-> pc, locks |-> {}, cb_time |-> 0, job |-> job]

\* Line 1016 to 1020: processing_job is read, with no lock held; the request
\* is answered client-error-not-found when there is none.
ccj_get_job(c) ==
  /\ threads[c].pc = "idle"
  /\ IF printer.processing_job = NoJob
       THEN /\ client' = papplClientRespondIPP("Cancel-Current-Job", NoRequest,
                                               "client-error-not-found")
            /\ UNCHANGED threads
       ELSE /\ threads' = [threads EXCEPT
                             ![c] = CancelThread("test",
                                                 printer.processing_job)]
            /\ UNCHANGED client
  /\ UNCHANGED <<system, printer, now>>

\* Line 1024 to 1036: the switch on job->state; a terminal job is answered
\* client-error-not-possible.
ccj_test_state(c) ==
  /\ threads[c].pc = "test"
  /\ IF printer.all_jobs[threads[c].job].state \in JobTerminal
       THEN /\ client' = papplClientRespondIPP("Cancel-Current-Job", NoRequest,
                                               "client-error-not-possible")
            /\ threads' = [threads EXCEPT ![c] = IdleThread]
       ELSE /\ threads' = [threads EXCEPT ![c].pc = "cancel"]
            /\ UNCHANGED client
  /\ UNCHANGED <<system, printer, now>>

\* Line 1038 to 1043: papplJobCancel and the successful-ok response.
ccj_cancel(c) ==
  /\ threads[c].pc = "cancel"
  /\ printer' = papplJobCancel(printer, threads[c].job)
  /\ client' = papplClientRespondIPP("Cancel-Current-Job", NoRequest,
                                     "successful-ok")
  /\ threads' = [threads EXCEPT ![c] = IdleThread]
  /\ UNCHANGED <<system, now>>

\* Print-Job of a request that is admitted.
CancelPrintJob ==
  ipp_print_job([format |-> "", have_data |-> TRUE, attrs |-> NoAttrs], TRUE)

NextCancel ==
  \/ CancelPrintJob
  \/ StartJob
  \/ FinishJob
  \/ \E c \in Clients : ccj_get_job(c)
  \/ \E c \in Clients : ccj_test_state(c)
  \/ \E c \in Clients : ccj_cancel(c)

SpecCancel == Init /\ [][NextCancel]_vars

----------------------------------------------------------------------------
(* Properties *)

JobIndexes(p) == 1..Len(p.all_jobs)

\* C1: at most one job of the printer is in state processing, in every
\* reachable state.
C1_AtMostOneProcessing ==
  Cardinality({j \in JobIndexes(printer) :
                 printer.all_jobs[j].state = "processing"}) <= 1

\* A job is processing while another one, document spooled, waits.
C1_Witness ==
  /\ printer.processing_job # NoJob
  /\ \E k \in JobIndexes(printer) :
       /\ k # printer.processing_job
       /\ printer.all_jobs[k].state = "pending"
       /\ printer.all_jobs[k].has_document

\* C2: the printer state is idle, processing or stopped; it is processing
\* exactly when processing_job is set; with no processing job it is stopped
\* if is_stopped is set and idle otherwise.
C2_PrinterState ==
  /\ printer.state \in PrinterStates
  /\ printer.state = "processing" <=> printer.processing_job # NoJob
  /\ printer.processing_job = NoJob =>
       printer.state = IF printer.is_stopped THEN "stopped" ELSE "idle"

\* A pause was requested while a job is processing.
C2_Witness ==
  /\ printer.is_stopped
  /\ printer.processing_job # NoJob
  /\ printer.state = "processing"

\* C3: every job of the printer has an id of its own, and every id is below
\* next_job_id, after any creations and papplPrinterSetNextJobID calls.
C3_UniqueIdsBelowNext ==
  /\ \A j \in JobIndexes(printer) :
       printer.all_jobs[j].job_id < printer.next_job_id
  /\ \A j, k \in JobIndexes(printer) :
       j # k => printer.all_jobs[j].job_id # printer.all_jobs[k].job_id

\* The job state changes the state machine allows.
JobTransitions ==
  {<<"pending", "processing">>, <<"pending", "held">>, <<"held", "pending">>}
    \cup {<<"processing", t>> : t \in JobTerminal \cup {"stopped"}}
    \cup {<<s, "canceled">> : s \in JobStates \ JobTerminal}

C5_ProcessedInIdOrder ==
  [][\A j \in JobIndexes(printer) :
       (/\ printer.all_jobs[j].state # "processing"
        /\ printer'.all_jobs[j].state = "processing")
         => \A k \in JobIndexes(printer) :
              printer.all_jobs[k].state = "pending"
                => printer.all_jobs[k].job_id >= printer.all_jobs[j].job_id]_vars

\* Job 1 is processing and job 2 waits with its document, which arrived
\* before the document of job 1: the last response is Send-Document's for
\* job 1.
C5_Witness ==
  /\ Len(printer.all_jobs) >= 2
  /\ printer.all_jobs[1].state = "processing"
  /\ printer.all_jobs[2].state = "pending"
  /\ printer.all_jobs[2].has_document
  /\ printer.all_jobs[1].job_id < printer.all_jobs[2].job_id
  /\ client.op = "Send-Document"
  /\ client.job_id = printer.all_jobs[1].job_id

\* The job lists and next_job_id are left as they are.
NoJobCreated ==
  /\ printer'.all_jobs = printer.all_jobs
  /\ printer'.active_jobs = printer.active_jobs
  /\ printer'.next_job_id = printer.next_job_id

\* C6 as stated: with the shutdown deadline set, Print-Job, Create-Job and
\* Validate-Job all respond server-error-not-accepting-jobs and create no job.
C6_AllNotAccepting ==
  [][\A req \in Requests, created \in BOOLEAN :
       (/\ system.shutdown_time # 0
        /\ \/ ipp_print_job(req, created)
           \/ ipp_create_job(req, created)
           \/ ipp_validate_job(req))
         => /\ client'.status = "server-error-not-accepting-jobs"
            /\ NoJobCreated]_vars

\* C6 amended: with the shutdown deadline set no job is created, and the
\* response is server-error-not-accepting-jobs for Validate-Job, for a
\* Print-Job with document data and for a Create-Job without; a Print-Job
\* without document data and a Create-Job with document data are answered
\* client-error-bad-request.
C6_NotAcceptingAfterDataTest ==
  [][\A req \in Requests, created \in BOOLEAN :
       system.shutdown_time # 0 =>
         /\ ipp_print_job(req, created) =>
              /\ client'.status = IF req.have_data
                                    THEN "server-error-not-accepting-jobs"
                                    ELSE "client-error-bad-request"
              /\ NoJobCreated
         /\ ipp_create_job(req, created) =>
              /\ client'.status = IF req.have_data
                                    THEN "client-error-bad-request"
                                    ELSE "server-error-not-accepting-jobs"
              /\ NoJobCreated
         /\ ipp_validate_job(req) =>
              /\ client'.status = "server-error-not-accepting-jobs"
              /\ NoJobCreated]_vars

\* A Print-Job with document data was refused because of the shutdown.
C6_Witness ==
  /\ system.shutdown_time # 0
  /\ client.op = "Print-Job"
  /\ client.request.have_data
  /\ client.status = "server-error-not-accepting-jobs"

----------------------------------------------------------------------------
(* Properties of admission, stated on the handled request *)

\* The request of the client was handled, and the handler got as far as the
\* attribute checks: no shutdown was pending, a Print-Job came with document
\* data and a Create-Job without.
AdmissionRan ==
  /\ client.op \in {"Print-Job", "Create-Job", "Validate-Job"}
  /\ client.status # "received"
  /\ system.shutdown_time = 0
  /\ client.op = "Print-Job" => client.request.have_data
  /\ client.op = "Create-Job" => ~client.request.have_data

\* The job template attributes of the request that fail their check.
FailingAttrs ==
  {n \in DOMAIN client.request.attrs :
     AttrUnsupported(n, client.request.attrs[n], printer.driver_data)}

\* Attribute n of the request is in the unsupported group, tag and values
\* as sent.
Echoed(n) ==
  \E i \in 1..Len(client.unsupported) :
    client.unsupported[i] = [name |-> n, attr |-> client.request.attrs[n]]

\* No job was created for the one request of the run.
NoJobOfRequest ==
  /\ printer.all_jobs = <<>>
  /\ printer.active_jobs = <<>>
  /\ printer.next_job_id = 1

\* C7: when job template attributes of a Print-Job, Create-Job or
\* Validate-Job request fail admission, the status is
\* client-error-attributes-or-values-not-supported, each failing attribute
\* is in the unsupported group, and no job is created.
C7_AllFailuresEchoed ==
  (AdmissionRan /\ FailingAttrs # {}) =>
    /\ client.status = "client-error-attributes-or-values-not-supported"
    /\ \A n \in FailingAttrs : Echoed(n)
    /\ NoJobOfRequest

\* A Print-Job whose two job template attributes both failed.
C7_Witness ==
  /\ AdmissionRan
  /\ client.op = "Print-Job"
  /\ Cardinality(FailingAttrs) = 2
  /\ \A n \in FailingAttrs : Echoed(n)

\* A single integer in 1..999.
CopiesInRange(a) == a.count = 1 /\ a.tag = "integer" /\ a.int \in 1..999

\* C8: admission accepts copies exactly when it is a single integer in
\* 1..999: such a value is not reported as unsupported, and a request with
\* nothing else to refuse is accepted; any other copies attribute is echoed
\* with its value and the request refused.
C8_CopiesRange ==
  (AdmissionRan /\ "copies" \in DOMAIN client.request.attrs) =>
    LET a == client.request.attrs["copies"]
    IN  IF CopiesInRange(a)
          THEN /\ \A i \in 1..Len(client.unsupported) :
                    client.unsupported[i].name # "copies"
               /\ (/\ DOMAIN client.request.attrs = {"copies"}
                   /\ client.request.format = "")
                    => client.status \in {"successful-ok", "server-error-busy"}
          ELSE /\ Echoed("copies")
               /\ client.status =
                    "client-error-attributes-or-values-not-supported"
               /\ NoJobOfRequest

\* copies = 1000 was refused and echoed, and elsewhere copies = 999 accepted:
\* the state is the refusal of 1000.
C8_Witness ==
  /\ AdmissionRan
  /\ "copies" \in DOMAIN client.request.attrs
  /\ client.request.attrs["copies"] = IntAttr("integer", 1, 1000)
  /\ Echoed("copies")

\* C9: Validate-Job creates no job, whether admission succeeds or fails:
\* active_jobs, all_jobs and next_job_id are as before the request.
C9_ValidateCreatesNothing ==
  [][\A req \in Requests : ipp_validate_job(req) => NoJobCreated]_vars

\* A Validate-Job request passed admission.
C9_Witness ==
  /\ client.op = "Validate-Job"
  /\ client.status = "successful-ok"

\* C10: a Print-Job without document data and a Create-Job followed by
\* document data are answered client-error-bad-request, create no job and
\* leave next_job_id alone.
C10_BadRequest ==
  [][\A req \in Requests, created \in BOOLEAN :
       (\/ ~req.have_data /\ ipp_print_job(req, created)
        \/ req.have_data /\ ipp_create_job(req, created))
         => /\ client'.status = "client-error-bad-request"
            /\ NoJobCreated]_vars

\* A Create-Job that came with document data was refused.
C10_Witness ==
  /\ client.op = "Create-Job"
  /\ client.request.have_data
  /\ client.status = "client-error-bad-request"

----------------------------------------------------------------------------
(* Cancel-Current-Job, Cancel-Jobs and authorization *)

\* C11: Cancel-Current-Job targets the printer's processing_job: it responds
\* client-error-not-possible when no job is processing or when that job is
\* already canceled, aborted or completed, and otherwise cancels that job
\* and responds successful-ok.
C11_CancelCurrentJob ==
  [][ipp_cancel_current_job =>
       IF \/ printer.processing_job = NoJob
          \/ printer.all_jobs[printer.processing_job].state \in JobTerminal
         THEN /\ client'.status = "client-error-not-possible"
              /\ printer' = printer
         ELSE /\ client'.status = "successful-ok"
              /\ printer' = papplJobCancel(printer, printer.processing_job)]_vars

\* The last request answered was an authorized Cancel-Jobs or Cancel-My-Jobs.
CancelJobsAnswered ==
  /\ client.op \in {"Cancel-Jobs", "Cancel-My-Jobs"}
  /\ client.status = "successful-ok"

\* An authorized Cancel-Jobs or Cancel-My-Jobs step: every job that was not
\* terminal is canceled, or is the processing job with its cancel flag set.
CancelJobsStep ==
  (\E op \in {"Cancel-Jobs", "Cancel-My-Jobs"} : ipp_cancel_jobs(op, "continue"))
    => \A j \in JobIndexes(printer) :
         printer.all_jobs[j].state \notin JobTerminal =>
           \/ printer'.all_jobs[j].state = "canceled"
           \/ /\ printer'.all_jobs[j].state = "processing"
              /\ printer'.all_jobs[j].is_canceled

\* The job that was processing at the Cancel-Jobs request ends in one of
\* `ends` (no request was handled in between, so it is that job).
ProcessingJobEndsIn(ends) ==
  (CancelJobsAnswered /\ printer.processing_job # NoJob
     /\ printer'.processing_job = NoJob)
    => printer'.all_jobs[printer.processing_job].state \in ends

\* After the request and until the next one every job is terminal: once the
\* print callback of the canceled processing job has returned.
AllJobsTerminal ==
  \A j \in JobIndexes(printer) : printer.all_jobs[j].state \in JobTerminal

\* C12 as stated: after an authorized Cancel-Jobs or Cancel-My-Jobs every job
\* that was not terminal transitions to canceled; none stays pending, held or
\* stopped, and the job that was processing ends in canceled.
C12_AllEndCanceled ==
  [][CancelJobsStep /\ ProcessingJobEndsIn({"canceled"})]_vars

\* C12 amended: as above, but the job that was processing ends in canceled
\* or, when its print callback does not return within the grace period, in
\* aborted; with a scheduled worker it does end before the next request is
\* answered or that request comes first.
C12_AllEndCanceledOrAborted ==
  /\ [][CancelJobsStep /\ ProcessingJobEndsIn({"canceled", "aborted"})]_vars
  /\ (CancelJobsAnswered ~> (AllJobsTerminal \/ ~CancelJobsAnswered))

\* Cancel-Jobs found job 1 processing and job 2 pending: job 2 was canceled
\* at once, job 1 when its print callback returned.
C12_Witness ==
  /\ CancelJobsAnswered
  /\ Len(printer.all_jobs) = 2
  /\ \A j \in JobIndexes(printer) : printer.all_jobs[j].state = "canceled"
  /\ printer.completed_jobs = <<1, 2>>

\* The printer fields an unauthorized request must leave alone: is_stopped,
\* the printer state, the jobs and their states, the driver data, the
\* settable fields and config_time.
PrinterUnchanged == printer' = printer

\* A step of one of the five handlers with authorization result auth_status.
AuthorizedOpStep(auth_status) ==
  \/ ipp_pause_printer(auth_status)
  \/ ipp_resume_printer(auth_status)
  \/ \E sreq \in SetRequests : ipp_set_printer_attributes(sreq, auth_status)
  \/ \E op \in {"Cancel-Jobs", "Cancel-My-Jobs"} :
       ipp_cancel_jobs(op, auth_status)

\* C13: for Pause-Printer, Resume-Printer, Set-Printer-Attributes, Cancel-Jobs
\* and Cancel-My-Jobs, when the authorization check does not succeed the
\* handler replies with the authorization HTTP status, composes no IPP
\* response and leaves the printer unchanged.
C13_Unauthorized ==
  [][\A auth_status \in AuthStatuses \ {"continue"} :
       AuthorizedOpStep(auth_status) =>
         /\ client'.http = auth_status
         /\ client'.status = "none"
         /\ client'.unsupported = <<>>
         /\ PrinterUnchanged
         /\ system' = system]_vars

\* A forbidden request was turned away on a printer that has a processing
\* job, a pending job, and was configured a second or more ago.
C13_Witness ==
  /\ client.http = "forbidden"
  /\ client.op \in {"Pause-Printer", "Resume-Printer", "Set-Printer-Attributes",
                    "Cancel-Jobs", "Cancel-My-Jobs"}
  /\ printer.processing_job # NoJob
  /\ PendingJobs(printer) # <<>>
  /\ printer.location = "Lab"
  /\ printer.config_time < now

----------------------------------------------------------------------------
(* Pause-Printer and Resume-Printer *)

\* C14: while the printer is paused (a Pause-Printer was accepted and no
\* Resume-Printer since: is_stopped is set) no job of the printer goes from
\* pending to processing.
C14_NoStartWhilePaused ==
  [][printer.is_stopped =>
       \A j \in JobIndexes(printer) :
         ~(/\ printer.all_jobs[j].state = "pending"
           /\ printer'.all_jobs[j].state = "processing")]_vars

\* The printer is paused and idle with a job the worker could otherwise start.
C14_Witness ==
  /\ printer.is_stopped
  /\ printer.state = "stopped"
  /\ printer.processing_job = NoJob
  /\ PendingJobs(printer) # <<>>
  /\ printer.all_jobs[Head(PendingJobs(printer))].has_document

IsPending(j) ==
  j \in JobIndexes(printer) /\ printer.all_jobs[j].state = "pending"

\* Job j is pending and is not kept waiting by a job ahead of it whose
\* document has not arrived.
ReadyToPrint(j) ==
  /\ j \in JobIndexes(printer)
  /\ printer.all_jobs[j].state = "pending"
  /\ \A k \in JobIndexes(printer) :
       (k <= j /\ printer.all_jobs[k].state = "pending")
         => printer.all_jobs[k].has_document

\* An accepted Pause-Printer that finds a job processing changes no job and
\* leaves the printer in processing.
PauseKeepsJob ==
  (ipp_pause_printer("continue") /\ printer.processing_job # NoJob)
    => /\ printer'.all_jobs = printer.all_jobs
       /\ printer'.processing_job = printer.processing_job
       /\ printer'.state = "processing"

\* A paused printer that is processing stays in processing until its job is
\* terminal and moves to stopped with that step.
StoppedOnlyAfterJob ==
  (printer.is_stopped /\ printer.state = "processing")
    => \/ printer'.state = "processing"
       \/ /\ printer'.state = "stopped"
          /\ printer'.all_jobs[printer.processing_job].state \in JobTerminal

ResumeLeavesStopped ==
  ipp_resume_printer("continue") => printer'.state # "stopped"

\* C15: Pause-Printer issued while a job is processing does not interrupt
\* that job: the printer stays in processing until the job reaches a terminal
\* state and only then moves to stopped; after a later Resume-Printer the
\* printer leaves stopped and a waiting pending job is eventually processed
\* (or canceled, or the printer is paused again first).
C15_PauseDeferred ==
  /\ [][PauseKeepsJob /\ StoppedOnlyAfterJob /\ ResumeLeavesStopped]_vars
  /\ \A j \in 1..MaxJobs :
       (ReadyToPrint(j) /\ ~printer.is_stopped)
         ~> (~IsPending(j) \/ printer.is_stopped)

\* Pause-Printer was accepted while job 1 is processing and job 2 waits with
\* its document: job 1 is still processing.
C15_Witness ==
  /\ client.op = "Pause-Printer"
  /\ client.status = "successful-ok"
  /\ printer.is_stopped
  /\ printer.state = "processing"
  /\ printer.processing_job = 1
  /\ printer.all_jobs[1].state = "processing"
  /\ ReadyToPrint(2)

\* C16: Pause-Printer on a printer that is already paused is a state-machine
\* conflict and returns client-error-not-possible.
C16_PauseAlreadyPaused ==
  [][(ipp_pause_printer("continue") /\ printer.is_stopped)
       => client'.status = "client-error-not-possible"]_vars

----------------------------------------------------------------------------
(* Get-Jobs *)

\* The which-jobs keyword the handler reads from the request: the default
\* when the request has no which-jobs keyword.
WhichJobs(greq) ==
  IF greq.which_jobs.count > 0 /\ greq.which_jobs.tag = "keyword"
    THEN greq.which_jobs.str
    ELSE "not-completed"

\* The states of the jobs the response lists.
ReturnedStates(c, p) == {p.all_jobs[c.jobs[i]].state : i \in 1..Len(c.jobs)}

\* C17: Get-Jobs returns only jobs matching which-jobs: not-completed (also
\* the default when which-jobs is absent) only jobs that are pending, held,
\* processing or stopped; completed only jobs that are canceled, aborted or
\* completed; all jobs in any state; any other which-jobs value yields
\* client-error-attributes-or-values-not-supported with which-jobs echoed in
\* the unsupported group and no jobs.
C17_GetJobsWhichJobs ==
  [][\A greq \in GetJobsRequests :
       ipp_get_jobs(greq) =>
         CASE WhichJobs(greq) = "not-completed" ->
                ReturnedStates(client', printer)
                  \subseteq {"pending", "held", "processing", "stopped"}
           [] WhichJobs(greq) = "completed" ->
                ReturnedStates(client', printer) \subseteq JobTerminal
           [] WhichJobs(greq) = "all" ->
                ReturnedStates(client', printer) \subseteq JobStates
           [] OTHER ->
                /\ client'.status
                     = "client-error-attributes-or-values-not-supported"
                /\ client'.unsupported
                     = <<[name |-> "which-jobs", attr |-> greq.which_jobs]>>
                /\ client'.jobs = <<>>]_vars

\* A Get-Jobs response that lists one job of two while the other is in a
\* state of the other kind.
C17_Witness ==
  /\ client.op = "Get-Jobs"
  /\ client.status = "successful-ok"
  /\ Len(client.jobs) = 1
  /\ Len(printer.all_jobs) = 2
  /\ \E j \in JobIndexes(printer) :
       printer.all_jobs[j].state \in JobTerminal
  /\ \E j \in JobIndexes(printer) :
       printer.all_jobs[j].state \notin JobTerminal

----------------------------------------------------------------------------
(* The status and identify driver callbacks *)

\* Thread c is inside the status callback.
InStatusCallback(c) == threads[c].pc = "status_cb"

\* C18: the status driver callback is invoked by Get-Printer-Attributes at
\* most once per second, also when several clients issue
\* Get-Printer-Attributes on the same printer concurrently: no two
\* invocations carry the same second.
C18_StatusOncePerSecond ==
  \A c1, c2 \in Clients :
    (c1 # c2 /\ InStatusCallback(c1) /\ InStatusCallback(c2))
      => threads[c1].cb_time # threads[c2].cb_time

\* C19: the status driver callback is never running while the printer has a
\* processing job or its device is in use, even when a job starts processing
\* concurrently with a Get-Printer-Attributes request.
C19_StatusOnlyWhenIdle ==
  \A c \in Clients :
    InStatusCallback(c)
      => (printer.processing_job = NoJob /\ ~printer.device_in_use)

\* C20: no driver callback (status, identify) is invoked by a request handler
\* while that handler holds the printer lock or the system lock.
C20_CallbacksWithoutLock ==
  \A c \in Clients :
    threads[c].pc \in {"status_cb", "identify_cb"} => threads[c].locks = {}

\* One thread is inside the status callback and another inside the identify
\* callback.
C20_Witness ==
  \E c1, c2 \in Clients :
    /\ threads[c1].pc = "status_cb"
    /\ threads[c2].pc = "identify_cb"

----------------------------------------------------------------------------
(* Lock order *)

\* C21: locks are always acquired in the order system, then printer: no
\* thread acquires the system lock while it holds a printer lock.
C21_LockOrder ==
  [][\A c \in Clients :
       ("system" \notin threads[c].locks /\ "system" \in threads'[c].locks)
         => "printer" \notin threads[c].locks]_vars

----------------------------------------------------------------------------
(* Set-Printer-Attributes *)

\* Attribute ra fails the whitelist: it is of a group other than the
\* operation and printer groups, or its name is unknown (not settable, not
\* a vendor default and not one of the names Create-Printer itself reads),
\* or it has the wrong value tag or too many values.
FailsWhitelist(ra, drv, create_printer) ==
  /\ ra.group # "operation"
  /\ \/ ra.group # "printer"
     \/ /\ ~(create_printer /\ ra.name \in {"printer-device-id", "printer-name",
                                            "smi2699-device-uri",
                                            "smi2699-device-command"})
        /\ ra.name \notin drv.vendor
        /\ \A pa \in pattrs :
             \/ pa.name # ra.name
             \/ pa.value_tag # ra.attr.tag
             \/ ra.attr.count > pa.max_count

\* A request read in the step before was answered with an IPP response.
SetAnswered ==
  /\ client.status = "received"
  /\ client.op \in {"Set-Printer-Attributes", "Create-Printer"}
  /\ client' # client
  /\ client'.http = "none"

\* C22: Set-Printer-Attributes (and the attribute part of Create-Printer) is
\* all-or-nothing: if any attribute fails the whitelist preflight no printer
\* field is changed, config_time is not bumped, the system is not notified
\* and the failing attributes are reported as unsupported; if all pass, the
\* changes are applied, config_time is bumped and the system is notified.
C22_AllOrNothing ==
  [][SetAnswered =>
       LET sreq   == client.request
           failed == SelectSeq(sreq, LAMBDA ra :
                       FailsWhitelist(ra, printer.driver_data,
                                      client.op = "Create-Printer"))
       IN  IF failed # <<>>
             THEN /\ printer' = printer
                  /\ system' = system
                  /\ client'.status
                       = "client-error-attributes-or-values-not-supported"
                  /\ client'.unsupported
                       = [i \in 1..Len(failed) |->
                            [name |-> failed[i].name, attr |-> failed[i].attr]]
             ELSE /\ client'.status = "successful-ok"
                  /\ printer'.config_time = now
                  /\ system'.config_changed
                  /\ \A i \in 1..Len(sreq) :
                       sreq[i].group = "printer" =>
                         /\ sreq[i].name = "printer-location"
                              => printer'.location = sreq[i].attr.str
                         /\ sreq[i].name = "printer-organization"
                              => printer'.organization = sreq[i].attr.str
                         /\ sreq[i].name = "printer-geo-location"
                              => printer'.geo_location = sreq[i].attr.str]_vars

\* A request with a settable location and a second attribute that fails was
\* turned down, and the printer configured before kept its location.
C22_Witness ==
  /\ client.op = "Set-Printer-Attributes"
  /\ client.status = "client-error-attributes-or-values-not-supported"
  /\ Len(client.request) = 2
  /\ client.request[1]
       = SetAttr("printer", "printer-location", StrAttr("text", 1, "Lab"))
  /\ Len(client.unsupported) = 1
  /\ printer.location = "Office"
  /\ printer.config_time = 1

----------------------------------------------------------------------------
(* Concurrent reads and sets of the printer attributes *)

\* The fields of printer p that a response carries.
ConfigOf(p) == [i \in 1..Len(CopiedFields) |-> p[CopiedFields[i]]]

\* A Get-Printer-Attributes response is complete.
ResponseSent(c) ==
  threads[c].pc = "idle" /\ Len(threads[c].copied) = Len(CopiedFields)

\* The configurations with all of a request's changes or none of them: that
\* of the new printer and those left by one whole request at some time.
WholeConfigs ==
  {ConfigOf(NewPrinter(TestDriver))}
    \cup {ConfigOf(_papplPrinterSetAttributes(sreq, NewPrinter(TestDriver),
                                              system, t, FALSE).printer) :
            sreq \in RWRequests, t \in StartTime..MaxTime}

\* C23: a Get-Printer-Attributes running concurrently with
\* Set-Printer-Attributes requests on the same printer observes all of a
\* request's changes or none of them, never a mix of old and new values:
\* what a reader has copied agrees with the printer as long as it holds the
\* lock, and every response is a configuration left by whole requests.
C23_ConsistentSnapshot ==
  \A c \in Clients :
    /\ "printer" \in threads[c].locks
         => threads[c].copied = SubSeq(ConfigOf(printer), 1,
                                       Len(threads[c].copied))
    /\ ResponseSent(c) => threads[c].copied \in WholeConfigs

\* A reader has its response with the values of one request while another
\* thread is applying the second attribute of the other request.
C23_Witness ==
  \E c, w \in Clients :
    /\ ResponseSent(c)
    /\ threads[c].copied[2] = "Lab"
    /\ threads[w].pc = "apply"
    /\ Len(threads[w].request) = 1
    /\ printer.organization = "Org2"
    /\ printer.location = "Lab"

----------------------------------------------------------------------------
(* Geolocation *)

\* C24: after any sequence of papplSystemSetGeoLocation,
\* papplPrinterSetGeoLocation and Set-Printer-Attributes with
\* printer-geo-location, a stored geolocation is absent or matches
\* geo:<float>,<float>(,<float>)?.
C24_GeoWellFormed ==
  /\ system.geo_location = "" \/ IsGeoURI(system.geo_location)
  /\ printer.geo_location = "" \/ IsGeoURI(printer.geo_location)

----------------------------------------------------------------------------
(* The system API *)

\* The setters with a getter that work whether the system runs or not.
PlainFields ==
  {"admin_group", "contact", "default_printer_id", "default_print_group",
   "dns_sd_name", "hostname", "location", "log_level", "max_log_size",
   "organization", "org_unit", "versions", "geo_location"}

\* The value is one the setter of the field takes.
Admissible(field, value) ==
  field = "geo_location" => (value = "" \/ IsGeoURI(value))

C26_NoOpOnceRunning ==
  LET t == threads[1]
  IN  (t.pc = "got" /\ t.field \in {"footer_html", "uuid", "next_printer_id"})
        => IF t.was_running
             THEN t.get_value = t.prev_value
             ELSE IF t.field = "uuid" /\ t.set_value = ""
                    THEN t.get_value = GeneratedUUID
                    ELSE t.get_value = t.set_value

\* A UUID was set on the running system and the getter returns the UUID
\* that was set before the system ran.
C26_Witness ==
  /\ threads[1].pc = "got"
  /\ threads[1].field = "uuid"
  /\ threads[1].was_running
  /\ threads[1].set_value = "urn:uuid:0002"
  /\ threads[1].get_value = "urn:uuid:0001"

----------------------------------------------------------------------------
(* Dispatch and reported state *)

\* C28: a request with an operation that is not one of the handled printer
\* operations is passed to the installed operation callback; if no callback
\* is installed or the callback does not consume the request, the response
\* is server-error-operation-not-supported and no printer state changes.
C28_OtherOperations ==
  [][(client'.op \in OtherOperations /\ client' # client) =>
       /\ printer' = printer
       /\ client'.status \in {"server-error-operation-not-supported",
                              "successful-ok"}
       /\ client'.status # "server-error-operation-not-supported"
            => system.op_cb
       /\ ~system.op_cb
            => client'.status = "server-error-operation-not-supported"]_vars

\* Purge-Jobs was turned down by a system without operation callback while
\* a job was printing.
C28_Witness ==
  /\ client.op = "Purge-Jobs"
  /\ client.status = "server-error-operation-not-supported"
  /\ ~system.op_cb
  /\ printer.state = "processing"

\* C29: the reported printer-state-reasons contains moving-to-paused
\* exactly when is_stopped is set and the printer state is not stopped, is
\* the single value paused when the printer is stopped with no other state
\* reason, and none when neither applies and no reason bit is set.
C29_StateReasons ==
  LET reasons == _papplPrinterCopyState(printer)
      values  == {reasons[i] : i \in 1..Len(reasons)}
  IN  /\ "moving-to-paused" \in values
           <=> (printer.is_stopped /\ printer.state # "stopped")
      /\ (printer.state = "stopped" /\ printer.state_reasons = {})
           => reasons = <<"paused">>
      /\ (~printer.is_stopped /\ printer.state # "stopped"
            /\ printer.state_reasons = {})
           => reasons = <<"none">>

----------------------------------------------------------------------------
(* Cancel during processing *)

\* Job j is processing and a cancel was requested for it.
CancelRequested(j) ==
  /\ j \in JobIndexes(printer)
  /\ printer.all_jobs[j].state = "processing"
  /\ printer.all_jobs[j].is_canceled

\* Job j has ended in canceled or aborted.
EndedCanceledOrAborted(j) ==
  /\ j \in JobIndexes(printer)
  /\ printer.all_jobs[j].state \in {"canceled", "aborted"}

\* C31: when a cancel is requested for a job that is processing, the job
\* ends in canceled if the driver callback returns within the grace period
\* and in aborted if it does not; it never ends in completed.
C31_CancelWhileProcessing ==
  /\ [][\A ok \in BOOLEAN, in_time \in BOOLEAN :
          (_papplJobProcess(ok, in_time)
             /\ CancelRequested(printer.processing_job))
            => printer'.all_jobs[printer.processing_job].state
                 = IF in_time THEN "canceled" ELSE "aborted"]_vars
  /\ [][\A j \in JobIndexes(printer) :
          CancelRequested(j) =>
            (CancelRequested(j)' \/ EndedCanceledOrAborted(j)')]_vars
  /\ \A j \in 1..MaxJobs : CancelRequested(j) ~> EndedCanceledOrAborted(j)

\* Two jobs were canceled while they were processing: the callback of the
\* first returned in time, that of the second did not.
C31_Witness ==
  /\ Len(printer.all_jobs) = 2
  /\ printer.all_jobs[1].is_canceled /\ printer.all_jobs[1].state = "canceled"
  /\ printer.all_jobs[2].is_canceled /\ printer.all_jobs[2].state = "aborted"

\* The attributes of the name in the last response.
Reported(name) == SelectSeq(client.attrs, LAMBDA ra : ra.name = name)

\* The last request was a Get-Printer-Attributes that was answered.
GotPrinterAttributes ==
  /\ client.op = "Get-Printer-Attributes"
  /\ client.status = "successful-ok"

\* The request names a document-format of one of the two raster formats.
RasterFormatRequested ==
  /\ "document-format" \in DOMAIN client.request.attrs
  /\ client.request.attrs["document-format"].tag = "mimeMediaType"
  /\ client.request.attrs["document-format"].str
       \in {"image/pwg-raster", "image/urf"}

\* The request names no document-format, or one of another format.
OtherFormatRequested ==
  \/ "document-format" \notin DOMAIN client.request.attrs
  \/ /\ client.request.attrs["document-format"].tag = "mimeMediaType"
     /\ client.request.attrs["document-format"].str
          \notin {"image/pwg-raster", "image/urf"}

\* C32: a Get-Printer-Attributes response that includes copies-supported
\* reports it once, as the range 1..1 when the document-format of the
\* request is image/pwg-raster or image/urf and as 1..999 when the request
\* names another format or none.
C32_CopiesSupported ==
  (GotPrinterAttributes
     /\ Requested(ippCreateRequestedArray(client.request), "copies-supported"))
    => /\ Len(Reported("copies-supported")) = 1
       /\ Reported("copies-supported")[1].attr.tag = "rangeOfInteger"
       /\ Reported("copies-supported")[1].attr.int = 1
       /\ RasterFormatRequested
            => Reported("copies-supported")[1].attr.upper = 1
       /\ OtherFormatRequested
            => Reported("copies-supported")[1].attr.upper = 999

C32_Witness ==
  /\ GotPrinterAttributes
  /\ RasterFormatRequested
  /\ client.request.attrs["document-format"].str = "image/urf"
  /\ Len(Reported("copies-supported")) = 1
  /\ Reported("copies-supported")[1].attr.upper = 1

\* A media_ready entry is populated: it has a size name and both dimensions.
MediaPopulated(m) ==
  m.size_name # "" /\ m.size_width > 0 /\ m.size_length > 0

\* The last request was a successful Set-Printer-Attributes of the single
\* attribute name.
DidSet(name) ==
  /\ client.op = "Set-Printer-Attributes"
  /\ client.status = "successful-ok"
  /\ Len(client.request) = 1
  /\ client.request[1].group = "printer"
  /\ client.request[1].name = name

C34_NoJobAfterShutdown ==
  [][Len(printer'.all_jobs) > Len(printer.all_jobs)
       => system.shutdown_time = 0]_vars

\* The limit the request asks for: 0 without a limit of the integer syntax.
LimitOf(greq) ==
  IF greq.limit.count > 0 /\ greq.limit.tag = "integer" THEN greq.limit.int
                                                         ELSE 0

\* my-jobs is present and true.
MyJobsOf(greq) ==
  greq.my_jobs.count > 0 /\ greq.my_jobs.tag = "boolean" /\ greq.my_jobs.int # 0

\* The request carries a requesting-user-name.
HasUserName(greq) == greq.username.count > 0 /\ greq.username.tag = "name"

\* The jobs of printer p the request selects by which-jobs.
WhichJobsList(greq, p) ==
  CASE WhichJobs(greq) = "not-completed" -> p.active_jobs
    [] WhichJobs(greq) = "completed" -> p.completed_jobs
    [] OTHER -> AllJobs(p)

\* The jobs that match the request: those which-jobs selects, of the
\* requesting user when my-jobs is true.
MatchingJobs(greq, p) ==
  SelectSeq(WhichJobsList(greq, p),
            LAMBDA j : MyJobsOf(greq)
                         => LowerCase(p.all_jobs[j].username)
                              = LowerCase(greq.username.str))

Min(a, b) == IF a < b THEN a ELSE b

\* A step that answers a Get-Jobs request.
GetJobsStep == client' # client /\ client'.op = "Get-Jobs"

\* C35: a successful Get-Jobs with a limit L > 0 returns exactly min(L, M)
\* jobs, M being the number of matching jobs; without a limit or with a
\* limit that is not positive it returns all M matching jobs.
C35_GetJobsLimit ==
  [][(GetJobsStep /\ client'.status = "successful-ok")
       => Len(client'.jobs)
            = IF LimitOf(client'.request) > 0
                THEN Min(LimitOf(client'.request),
                         Len(MatchingJobs(client'.request, printer)))
                ELSE Len(MatchingJobs(client'.request, printer))]_vars

\* C36: Get-Jobs with my-jobs true and no requesting-user-name is answered
\* client-error-bad-request with no jobs; with a requesting-user-name it
\* returns only jobs whose owner equals that name ignoring case; with
\* my-jobs false or absent the owner is not used: without a limit every job
\* which-jobs selects is returned.
C36_GetJobsMyJobs ==
  [][GetJobsStep =>
       /\ (MyJobsOf(client'.request) /\ ~HasUserName(client'.request))
            => /\ client'.status = "client-error-bad-request"
               /\ client'.jobs = <<>>
       /\ (MyJobsOf(client'.request) /\ HasUserName(client'.request))
            => /\ client'.status = "successful-ok"
               /\ \A i \in 1..Len(client'.jobs) :
                    LowerCase(printer.all_jobs[client'.jobs[i]].username)
                      = LowerCase(client'.request.username.str)
       /\ (~MyJobsOf(client'.request) /\ LimitOf(client'.request) <= 0)
            => client'.jobs = WhichJobsList(client'.request, printer)]_vars

\* A my-jobs response for ALICE that lists the job of alice and leaves out
\* the job of Bob.
C36_Witness ==
  /\ client.op = "Get-Jobs"
  /\ client.status = "successful-ok"
  /\ MyJobsOf(client.request)
  /\ Len(printer.all_jobs) = 2
  /\ printer.all_jobs[1].username = "Bob"
  /\ printer.all_jobs[2].username = "alice"
  /\ printer.all_jobs[2].state = "pending"
  /\ client.jobs = <<2>>

\* Settable attributes of one value that Get-Printer-Attributes reports
\* under the name they are set by.
SettableReported ==
  {"label-mode-configured", "orientation-requested-default",
   "print-color-mode-default", "print-content-optimize-default",
   "print-quality-default", "printer-geo-location", "printer-location",
   "printer-organization", "printer-organizational-unit"}

\* C37: after a successful Set-Printer-Attributes of a settable attribute
\* that Get-Printer-Attributes reports, the next Get-Printer-Attributes that
\* includes the attribute reports it exactly once, with the value set.
C37_SetThenGet ==
  [][((\E name \in SettableReported : DidSet(name))
        /\ client'.op = "Get-Printer-Attributes"
        /\ Requested(ippCreateRequestedArray(client'.request),
                     client.request[1].name))
       => LET reported == SelectSeq(client'.attrs,
                            LAMBDA ra : ra.name = client.request[1].name)
          IN  /\ Len(reported) = 1
              /\ reported[1].attr = client.request[1].attr]_vars

\* C38: Get-Printer-Attributes only reads the printer: apart from the time
\* of the status refresh the printer, with its stored attributes, is after
\* the request as it was before, and a request that follows an identical
\* one with no change in between is answered with the same attributes.
C38_GetOnlyReads ==
  [][client'.op = "Get-Printer-Attributes"
       => /\ printer' = [printer EXCEPT !.status_time = printer'.status_time]
          /\ (client.op = "Get-Printer-Attributes"
                /\ client'.request = client.request)
               => client'.attrs = client.attrs]_vars

\* C39: a copies value that admission accepts for a request of document
\* format F lies inside the copies-supported range that
\* Get-Printer-Attributes reports for F.
C39_CopiesWithinSupported ==
  (/\ client.op \in {"Print-Job", "Create-Job", "Validate-Job"}
   /\ client.status = "successful-ok"
   /\ "copies" \in DOMAIN client.request.attrs)
    => /\ client.request.attrs["copies"].int
            >= CopiesSupported(client.request.format).int
       /\ client.request.attrs["copies"].int
            <= CopiesSupported(client.request.format).upper

\* C40: whenever Cancel-Current-Job answers successful-ok, the job it
\* cancels is the printer's processing job and is not in a terminal state at
\* the moment of the cancellation, also when the worker finishes the job
\* while the request is handled.
C40_CancelCurrentAtomic ==
  [][\A c \in Clients :
       (threads[c].pc = "cancel" /\ threads'[c].pc = "idle")
         => /\ printer.processing_job = threads[c].job
            /\ printer.all_jobs[threads[c].job].state \notin JobTerminal]_vars

====
